---- MODULE Spec2Model ----
(***************************************************************************)
(* A model of rainbowterm: the preset selector (smart choice, light/dark   *)
(* alternate), the file-backed store of the smart history, and the         *)
(* numeric helpers they use.                                               *)
(*                                                                         *)
(* The repository holds two implementations side by side: the package      *)
(* src/rainbowterm/ (PresetSelector, FileStore, calc) and the single-file  *)
(* script src/rainbowterm.py (class Rainbowterm).  Both read and write the *)
(* same data file smart_history, so they share the variable                *)
(* smart_history_file.                                                     *)
(*                                                                         *)
(* Conventions.                                                            *)
(*  - A Python str is a sequence of tokens.  A token is either a white-    *)
(*    space character (" " or "\n") or an atomic run of non-whitespace     *)
(*    characters ("a", "-", "light", ...).  str.split, str.strip,          *)
(*    str.join and str.replace are computed on these sequences.            *)
(*  - A Python float is an exact rational <<n, d>> in lowest terms with    *)
(*    d > 0.  Rounding error of IEEE arithmetic is not modelled.           *)
(*    The sRGB curve of colors is the exception: see there.                *)
(*  - A Python exception is a result record [kind |-> "<exception name>"]. *)
(***************************************************************************)
EXTENDS Integers, Sequences, FiniteSets, TLC

VARIABLES
    presets,             \* PresetSelector.presets / Rainbowterm.presets: sequence of Preset records in dict order
    config,              \* the parsed configuration: its [smart] or its [animation] section
    smart_history_file,  \* the data file smart_history: [exists, text]
    current_file,        \* the data file current: Value(name of the current preset), None when unknown
    favorites_file,      \* the config file favorites: [exists, text]
    interactive,         \* the Interactive object of the process, None outside interactive mode
    cache,               \* Rainbowterm.cache, restricted to the key smart_history: [has, value]
    call                 \* the last operation: its name, inputs, intermediate values and result

vars == <<presets, config, smart_history_file, current_file, favorites_file, interactive, cache, call>>

(***************************************************************************)
(* Bounds of the model.                                                    *)
(***************************************************************************)
\* Longest smart history (in entries) from which a selection is still started.
MaxHist == 2
\* How far beyond MAX_SMART_HISTORY the lists written to the store reach.
MaxOver == 2
\* Longest list of arbitrary entries written to the store.
MaxShort == 2
\* Largest number of presets when light/dark alternates are looked up.
MaxLD == 3

(***************************************************************************)
(* Program constants.                                                      *)
(***************************************************************************)
MAX_SMART_HISTORY == 100

(***************************************************************************)
(* Generic helpers on sequences.                                           *)
(***************************************************************************)
Range(s) == {s[i] : i \in DOMAIN s}

Max2(a, b) == IF a >= b THEN a ELSE b

\* The slice that is one element short: the last n - 1 elements.
LastN_one_short(s, n) == SubSeq(s, Max2(1, Len(s) - n + 2), Len(s))

\* Python s[-n:] for n >= 1: the last n elements, the whole list when shorter.
LastN(s, n) == SubSeq(s, Max2(1, Len(s) - n + 1), Len(s))

(***************************************************************************)
(* Python str operations on token sequences.                               *)
(***************************************************************************)
Whitespace == {" ", "\n"}

\* str.strip(): drop leading and trailing whitespace.
RECURSIVE LStrip(_)
LStrip(t) ==
    IF t # <<>> /\ Head(t) \in Whitespace THEN LStrip(Tail(t)) ELSE t

RECURSIVE RStrip(_)
RStrip(t) ==
    IF t # <<>> /\ t[Len(t)] \in Whitespace THEN RStrip(SubSeq(t, 1, Len(t) - 1)) ELSE t

Strip(t) == RStrip(LStrip(t))

\* The words of left followed by those of right; when glue, the last word of
\* left and the first word of right are one word, cut in two.
SplitMerge(left, right, glue) ==
    IF glue
    THEN SubSeq(left, 1, Len(left) - 1) \o <<left[Len(left)] \o right[1]>> \o Tail(right)
    ELSE left \o right

\* str.split() without separator: the maximal runs of non-whitespace, in
\* order.  Computed on the two halves of t, so that the depth of the
\* recursion stays small on long texts.
RECURSIVE Split(_)
Split(t) ==
    IF t = <<>> THEN <<>>
    ELSE IF Len(t) = 1 THEN (IF t[1] \in Whitespace THEN <<>> ELSE <<t>>)
    ELSE LET m == Len(t) \div 2
         IN  SplitMerge(Split(SubSeq(t, 1, m)), Split(SubSeq(t, m + 1, Len(t))),
                        t[m] \notin Whitespace /\ t[m + 1] \notin Whitespace)

\* "\n".join(list), computed on the two halves of list.
RECURSIVE JoinLines(_)
JoinLines(list) ==
    IF list = <<>> THEN <<>>
    ELSE IF Len(list) = 1 THEN list[1]
    ELSE LET m == Len(list) \div 2
         IN  JoinLines(SubSeq(list, 1, m)) \o <<"\n">>
                 \o JoinLines(SubSeq(list, m + 1, Len(list)))

\* True when pat occurs in t at position 1.
StartsWith(t, pat) ==
    /\ Len(pat) <= Len(t)
    /\ SubSeq(t, 1, Len(pat)) = pat

\* str.replace(old, new) for a non-empty old: every non-overlapping
\* occurrence, scanning left to right.
RECURSIVE Replace(_, _, _)
Replace(t, old, new) ==
    IF t = <<>> THEN <<>>
    ELSE IF StartsWith(t, old)
         THEN new \o Replace(SubSeq(t, Len(old) + 1, Len(t)), old, new)
         ELSE <<Head(t)>> \o Replace(Tail(t), old, new)

(***************************************************************************)
(* Python float arithmetic, as exact rationals <<n, d>>.                   *)
(***************************************************************************)
Abs(n) == IF n < 0 THEN -n ELSE n

RECURSIVE GCD(_, _)
GCD(a, b) == IF b = 0 THEN a ELSE GCD(b, a % b)

\* The rational n/d (d # 0) in lowest terms with a positive denominator.
Rat(n, d) ==
    LET g == GCD(Abs(n), Abs(d))
        s == IF d < 0 THEN -1 ELSE 1
    IN  <<(s * n) \div g, (s * d) \div g>>

RAdd(x, y) == Rat(x[1] * y[2] + y[1] * x[2], x[2] * y[2])

RSub(x, y) == Rat(x[1] * y[2] - y[1] * x[2], x[2] * y[2])

RMul(x, y) == Rat(x[1] * y[1], x[2] * y[2])

\* x / y for y # 0 (Python raises ZeroDivisionError for y = 0; callers test it).
RDiv(x, y) == Rat(x[1] * y[2], x[2] * y[1])

RLe(x, y) == x[1] * y[2] <= y[1] * x[2]

RLt(x, y) == x[1] * y[2] < y[1] * x[2]

\* Python max(a, b): b only when b > a.
RMax(a, b) == IF RLt(a, b) THEN b ELSE a

\* Python min(a, b): b only when b < a.
RMin(a, b) == IF RLt(b, a) THEN b ELSE a

Zero == <<0, 1>>

One == <<1, 1>>

Half == <<1, 2>>

(***************************************************************************)
(* calc: clamp, map_number, closeness, normalized_ranks,                   *)
(* bimodal_normalized_ranks.  The single-file script defines the same      *)
(* functions (src/rainbowterm.py lines 175-186, 341-387), its clamp taking *)
(* the range as two arguments that default to 0 and 1.                     *)
(***************************************************************************)
\* clamp(x, (lower, upper)) = max(lower, min(upper, x))
clamp(x, target) == RMax(target[1], RMin(target[2], x))

\* map_number raises ZeroDivisionError when the source range is degenerate.
map_number_raises(source) == source[1] = source[2]

\* map_number(x, (a, b), (c, d)) for a # b
map_number(x, source, target) ==
    LET a == source[1]
        b == source[2]
        c == target[1]
        d == target[2]
        result == RAdd(RMul(RDiv(RSub(x, a), RSub(b, a)), RSub(d, c)), c)
    IN  clamp(result, target)

\* The closeness that falls off with the distance, not with its square,
\* measured from x upwards only.
closeness_one_sided(x, y) == clamp(RSub(One, RSub(y, x)), <<Zero, One>>)

\* closeness(x, y) = clamp(1 - (x - y) ** 2, (0, 1))
closeness(x, y) ==
    clamp(RSub(One, RMul(RSub(x, y), RSub(x, y))), <<Zero, One>>)

\* A Python dict built by inserting the (key, value) pairs of a list in
\* order, as a function on the keys: a key inserted twice keeps the value
\* inserted last.
RECURSIVE Dict(_)
Dict(pairs) ==
    IF pairs = <<>> THEN <<>>
    ELSE LET n == Len(pairs)
         IN  (pairs[n][1] :> pairs[n][2]) @@ Dict(SubSeq(pairs, 1, n - 1))

\* list.sort keeps equal items in their order (it is stable, also with
\* reverse=True): x goes after every item that does not sort after it.
RECURSIVE Insert(_, _, _, _)
Insert(sorted, x, key, reverse) ==
    IF sorted = <<>> THEN <<x>>
    ELSE LET e == sorted[Len(sorted)]
             after == IF reverse THEN RLt(key[e], key[x]) ELSE RLt(key[x], key[e])
         IN  IF after
             THEN Append(Insert(SubSeq(sorted, 1, Len(sorted) - 1), x, key, reverse), e)
             ELSE Append(sorted, x)

\* sorted(values, key=key, reverse=reverse)
RECURSIVE Sorted(_, _, _)
Sorted(values, key, reverse) ==
    IF values = <<>> THEN <<>>
    ELSE Insert(Sorted(SubSeq(values, 1, Len(values) - 1), key, reverse),
                values[Len(values)], key, reverse)

\* {x: i / n for i, x in enumerate(values)} with n = len(values) - 1
EnumerateRanks(values) ==
    Dict([i \in DOMAIN values |-> <<values[i], Rat(i - 1, Len(values) - 1)>>])

\* The ranks that ignore reverse: always in ascending order of the keys.
normalized_ranks_ascending(values, key, reverse) ==
    IF values = <<>> THEN <<>>
    ELSE IF Len(values) = 1 THEN (values[1] :> Half)
    ELSE EnumerateRanks(Sorted(values, key, FALSE))

\* normalized_ranks(values, key, reverse): a dict, as a function on the items
normalized_ranks(values, key, reverse) ==
    IF values = <<>> THEN <<>>
    ELSE IF Len(values) = 1 THEN (values[1] :> Half)
    ELSE EnumerateRanks(Sorted(values, key, reverse))

\* {x: map_number(rank, (0, 1), target) for x, rank in ranks.items()}
MapRanks(items, ranks, target) ==
    Dict([i \in DOMAIN items |->
            <<items[i], map_number(ranks[items[i]], <<Zero, One>>, target)>>])

\* No gap, whatever the length of the side.
Gap_none(side) == Zero

\* 0.5 / (len(side) - 1) if len(side) > 1 else 0
Gap(side) == IF Len(side) > 1 THEN RDiv(Half, <<Len(side) - 1, 1>>) ELSE Zero

\* bimodal_normalized_ranks from the two sides on: half_gap, the ranks of
\* each side and {**left_ranks, **right_ranks}
BimodalRanks(left, right, half_gap, key, reverse) ==
    MapRanks(right, normalized_ranks(right, key, reverse), <<RAdd(Half, half_gap), One>>)
    @@ MapRanks(left, normalized_ranks(left, key, reverse), <<Zero, RSub(Half, half_gap)>>)

\* bimodal_normalized_ranks(values, middle, key, reverse)
bimodal_normalized_ranks(values, middle, key, reverse) ==
    LET below == SelectSeq(values, LAMBDA x : RLe(key[x], middle))
        above == SelectSeq(values, LAMBDA x : RLt(middle, key[x]))
        left == IF reverse THEN above ELSE below
        right == IF reverse THEN below ELSE above
        average_gap == RDiv(RAdd(Gap(left), Gap(right)), <<2, 1>>)
    IN  BimodalRanks(left, right, RDiv(average_gap, <<2, 1>>), key, reverse)

(***************************************************************************)
(* files: read_file, write_file and the smart_history property of          *)
(* FileStore.  Rainbowterm.smart_history reads and writes the same file in *)
(* the same way (src/rainbowterm.py lines 154-164, 488-499).               *)
(***************************************************************************)
NoFile == [exists |-> FALSE, text |-> <<>>]

\* read_file(path): file.read().strip()
read_file(file) == Strip(file.text)

\* write_file(path, content): print(content, file=file)
write_file(content) == [exists |-> TRUE, text |-> content \o <<"\n">>]

\* FileStore.smart_history (getter)
FileStore_smart_history(file) ==
    IF ~file.exists THEN <<>> ELSE Split(read_file(file))

\* FileStore.smart_history (setter): the file after the write
FileStore_set_smart_history(new_smart_history) ==
    write_file(JoinLines(LastN(new_smart_history, MAX_SMART_HISTORY)))

\* ord(c) of the characters that names are made of; the words dark and light
\* stand at the place of their first letter.
Ord == (" " :> 32) @@ ("-" :> 45) @@ ("a" :> 97) @@ ("b" :> 98) @@ ("c" :> 99)
       @@ ("dark" :> 100) @@ ("light" :> 108) @@ ("x" :> 120) @@ ("y" :> 121)

\* s < t on str: the first character that differs decides, and a proper
\* prefix comes first.
RECURSIVE StrLess(_, _)
StrLess(s, t) ==
    IF t = <<>> THEN FALSE
    ELSE IF s = <<>> THEN TRUE
    ELSE IF Head(s) # Head(t) THEN Ord[Head(s)] < Ord[Head(t)]
    ELSE StrLess(Tail(s), Tail(t))

\* sorted(strings) for a set of str
RECURSIVE SortedStrings(_)
SortedStrings(strings) ==
    IF strings = {} THEN <<>>
    ELSE LET first == CHOOSE s \in strings : \A t \in strings \ {s} : StrLess(s, t)
         IN  <<first>> \o SortedStrings(strings \ {first})

\* FileStore.favorites (getter)
FileStore_favorites(file) ==
    IF ~file.exists THEN {} ELSE Range(Split(read_file(file)))

\* FileStore.favorites (setter): the file after the write
FileStore_set_favorites(new_favorites) ==
    write_file(JoinLines(SortedStrings(new_favorites)))

(***************************************************************************)
(* Results of operations.                                                  *)
(***************************************************************************)
\* raise FatalError(message)
FatalError(message) == [kind |-> "FatalError", message |-> message]

\* fail(message) of the single-file script: print and sys.exit(1)
fail(message) == [kind |-> "SystemExit", message |-> message]

\* an uncaught Python exception
Raised(exception) == [kind |-> exception]

None == [kind |-> "None"]

Value(v) == [kind |-> "value", v |-> v]

\* Config.int / config_int with ge=lo, le=hi on a value that parsed as an int
config_int_in_range(value, lo, hi) == lo <= value /\ value <= hi

(***************************************************************************)
(* presets: smart_scores and smart_choice.                                 *)
(***************************************************************************)
\* The names of a sequence of presets: list(self.presets), the dict's keys.
Names(ps) == [i \in DOMAIN ps |-> ps[i].name]

\* Preset.brightness() by name / self.presets[p]["brightness"]
brightness(ps) == Dict([i \in DOMAIN ps |-> <<ps[i].name, ps[i].brightness>>])

\* Preset.contrast() by name / self.presets[p]["contrast"]
contrast(ps) == Dict([i \in DOMAIN ps |-> <<ps[i].name, ps[i].contrast>>])

\* Options with the slice forgotten: every entry of the history excludes.
Options_whole_history(names, history, avoid_repeat) ==
    IF avoid_repeat = 0 THEN names
    ELSE SelectSeq(names, LAMBDA p : p \notin Range(history))

\* smart_choice: the candidates, given the names in iteration order, the
\* history as read from the store and avoid_repeat
\*     if avoid_repeat == 0: options = list(self.presets)
\*     else: avoid = set(history[-avoid_repeat:]); options = [p for p in ... if p not in avoid]
Options(names, history, avoid_repeat) ==
    IF avoid_repeat = 0 THEN names
    ELSE LET avoid == Range(LastN(history, avoid_repeat))
         IN  SelectSeq(names, LAMBDA p : p \notin avoid)

\* SmartScore.total() / score["total"] = sum(score.values())
total(score) == RAdd(RAdd(score.sun, score.display), score.random)

\* {p: scores[p]["total"]} for the options
Totals(options, scores) ==
    Dict([i \in DOMAIN options |-> <<options[i], total(scores[options[i]])>>])

\* max(options, key=lambda p: key[p]): the first element with the largest key
FirstMax(options, key) ==
    LET i == CHOOSE i \in DOMAIN options :
                 /\ \A j \in DOMAIN options : RLe(key[options[j]], key[options[i]])
                 /\ \A j \in 1..(i - 1) : RLt(key[options[j]], key[options[i]])
    IN  options[i]

\* score(preset) of smart_scores: the three weighted terms
score(cfg, sun_rank, display_rank, ideal_sun_rank, ideal_display_rank, random) ==
    [sun |-> RMul(cfg.sun_weight,
                  IF ideal_sun_rank.kind = "value"
                  THEN closeness(sun_rank, ideal_sun_rank.v) ELSE Zero),
     display |-> RMul(cfg.display_weight,
                      IF ideal_display_rank.kind = "value"
                      THEN closeness(display_rank, ideal_display_rank.v) ELSE Zero),
     random |-> RMul(cfg.random_weight, random)]

\* Rainbowterm.smart_scores, calculate_ideal_rank: clamp defaults to (0, 1)
Rainbowterm_calculate_ideal_rank(offset, source_range, base_value) ==
    IF base_value.kind = "None" THEN None
    ELSE IF map_number_raises(source_range) THEN Raised("ZeroDivisionError")
    ELSE Value(map_number(clamp(RAdd(base_value.v, offset), <<Zero, One>>),
                          source_range, <<Zero, One>>))

\* {p: score(p) for p in presets}
Scores(options, cfg, sun_ranks, display_ranks, ideal_sun_rank, ideal_display_rank, rnd) ==
    Dict([i \in DOMAIN options |->
            <<options[i],
              score(cfg, sun_ranks[options[i]], display_ranks[options[i]],
                    ideal_sun_rank, ideal_display_rank, rnd[options[i]])>>])

\* Rainbowterm.smart_scores(presets, score_time).  sun is the outcome of
\* normalized_solar_elevation(score_time), display that of
\* display_brightness(display_num), rnd[p] the value random.random() returns
\* for p.
Rainbowterm_smart_scores(options, cfg, sun, display, rnd) ==
    LET ideal_sun_rank == Rainbowterm_calculate_ideal_rank(
            cfg.sun_offset, <<cfg.sun_min, cfg.sun_max>>, sun)
        ideal_display_rank == Rainbowterm_calculate_ideal_rank(
            cfg.display_offset, <<cfg.display_min, cfg.display_max>>, display)
    IN  IF sun.kind = "fail" THEN fail("failed to parse locateme output")
        ELSE IF ideal_sun_rank.kind = "ZeroDivisionError" THEN ideal_sun_rank
        ELSE IF display.kind = "fail" THEN fail("failed to parse brightness output")
        ELSE IF ideal_display_rank.kind = "ZeroDivisionError" THEN ideal_display_rank
        ELSE [kind |-> "ok",
              ideal_sun_rank |-> ideal_sun_rank,
              ideal_display_rank |-> ideal_display_rank,
              scores |-> Scores(options, cfg,
                  IF cfg.sun_bimodal
                  THEN bimodal_normalized_ranks(options, Half, brightness(presets), FALSE)
                  ELSE normalized_ranks(options, brightness(presets), FALSE),
                  normalized_ranks(options, contrast(presets), TRUE),
                  ideal_sun_rank, ideal_display_rank, rnd)]

\* PresetSelector.smart_scores, calculate_ideal_rank: calc.clamp(x, target)
\* has no default for target, so clamp(base_value + offset) raises TypeError.
PresetSelector_calculate_ideal_rank(offset, source_range, base_value) ==
    IF base_value.kind = "None" THEN None
    ELSE Raised("TypeError")

\* The first statements of PresetSelector.smart_scores, which rank the items
\* with key=Preset.brightness and key=Preset.contrast: the exception they
\* raise, or None.  item_type tells what the caller passed.
\*  - "str" (smart_choice passes options, a list of names): the key applied
\*    to a str reads str.colors and raises AttributeError;
\*    bimodal_normalized_ranks applies the key to every item,
\*    normalized_ranks only when it sorts (two items or more).
\*  - "Preset": a Preset holds a Colors, which defines __eq__ and no
\*    __hash__, so a Preset cannot be a dict key: the first rank stored
\*    raises TypeError.
PresetSelector_ranks_raise(item_type, items, cfg) ==
    IF items = <<>> THEN None
    ELSE IF item_type = "Preset" THEN Raised("TypeError")
    ELSE IF cfg.sun_bimodal \/ Len(items) >= 2 THEN Raised("AttributeError")
    ELSE None

\* PresetSelector.smart_scores(presets, score_time).  geolocation() raises
\* FatalError when the output of locateme does not parse, and
\* normalized_solar_elevation never returns None.
PresetSelector_smart_scores(item_type, items, cfg, sun, display, rnd) ==
    LET ranks_raise == PresetSelector_ranks_raise(item_type, items, cfg)
        ideal_sun_rank == PresetSelector_calculate_ideal_rank(
            cfg.sun_offset, <<cfg.sun_min, cfg.sun_max>>, sun)
        ideal_display_rank == PresetSelector_calculate_ideal_rank(
            cfg.display_offset, <<cfg.display_min, cfg.display_max>>, display)
    IN  IF ranks_raise # None THEN ranks_raise
        ELSE IF sun.kind = "fail" THEN FatalError("failed to parse locateme output")
        ELSE IF ideal_sun_rank.kind = "TypeError" THEN ideal_sun_rank
        ELSE IF display.kind = "fail" THEN FatalError("failed to parse brightness output")
        ELSE IF ideal_display_rank.kind = "TypeError" THEN ideal_display_rank
        ELSE [kind |-> "ok",
              ideal_sun_rank |-> ideal_sun_rank,
              ideal_display_rank |-> ideal_display_rank,
              scores |-> Scores(items, cfg, [p \in Range(items) |-> Half],
                                [p \in Range(items) |-> Half],
                                ideal_sun_rank, ideal_display_rank, rnd)]

\* PresetSelector_smart_choice_stage without the test of line 148.
PresetSelector_smart_choice_stage_unchecked(ps, avoid_repeat, options, scores) ==
    IF ps = <<>> THEN "presets"
    ELSE IF ~config_int_in_range(avoid_repeat, 0, MAX_SMART_HISTORY) THEN "config"
    ELSE IF scores.kind # "ok" THEN "scores"
    ELSE IF Len(options) >= 2 THEN "max"
    ELSE "append"

\* The statement at which PresetSelector.smart_choice ends: "presets" (line
\* 135), "config" (139), "options" (148), "scores" (153), "max" (154) or
\* "append" (155).
PresetSelector_smart_choice_stage(ps, avoid_repeat, options, scores) ==
    IF ps = <<>> THEN "presets"
    ELSE IF ~config_int_in_range(avoid_repeat, 0, MAX_SMART_HISTORY) THEN "config"
    ELSE IF options = <<>> THEN "options"
    ELSE IF scores.kind # "ok" THEN "scores"
    ELSE IF Len(options) >= 2 THEN "max"
    ELSE "append"

\* The statement at which Rainbowterm.smart_choice ends: "config" (line 655),
\* "options" (665), "scores" (667) or "return" (671).
Rainbowterm_smart_choice_stage(avoid_repeat, options, scores) ==
    IF ~config_int_in_range(avoid_repeat, 0, MAX_SMART_HISTORY) THEN "config"
    ELSE IF options = <<>> THEN "options"
    ELSE IF scores.kind # "ok" THEN "scores"
    ELSE "return"

\* smart_history_iadd replacing the history by the choice.
smart_history_iadd_overwrite(history, choice) == <<choice>>

\* self.smart_history += [choice]: the list handed to the setter
smart_history_iadd(history, choice) == history \o <<choice>>

(***************************************************************************)
(* The inputs the model draws from.                                        *)
(***************************************************************************)
\* Preset names without whitespace, in the order the presets are supplied.
PresetNames == << <<"a">>, <<"b">>, <<"c">> >>

\* (brightness, contrast) of a preset with a dark, a medium and a light
\* background.
Dark == <<Rat(1, 10), Rat(4, 5)>>

Medium == <<Rat(1, 2), Rat(1, 2)>>

Light == <<Rat(9, 10), Rat(1, 5)>>

\* Preset(name, colors), with the values of Preset.brightness() and
\* Preset.contrast() in place of the colors.
Preset(name, look) == [name |-> name, brightness |-> look[1], contrast |-> look[2]]

\* The preset collections: none, one, two, three of increasing brightness,
\* and three of which the first two look the same.
PresetLists ==
    { <<>>,
      <<Preset(PresetNames[1], Light)>>,
      <<Preset(PresetNames[1], Dark), Preset(PresetNames[2], Light)>>,
      <<Preset(PresetNames[1], Dark), Preset(PresetNames[2], Medium),
        Preset(PresetNames[3], Light)>>,
      <<Preset(PresetNames[1], Light), Preset(PresetNames[2], Light),
        Preset(PresetNames[3], Dark)>> }

\* default_config.ini / DEFAULT_CONFIG, section smart
DefaultConfig ==
    [sun_weight |-> Rat(10, 1), display_weight |-> Rat(2, 1), random_weight |-> Rat(1, 1),
     sun_bimodal |-> TRUE,
     sun_offset |-> Zero, sun_min |-> Zero, sun_max |-> One,
     display_offset |-> Zero, display_min |-> Rat(1, 5), display_max |-> Rat(1, 2),
     avoid_repeat |-> 2]

\* The score settings tried: the defaults; the sun term alone, with bimodal
\* and with uniform ranks; every weight 0; a degenerate source range on the
\* sun axis.
ScoreConfigs ==
    { DefaultConfig,
      [DefaultConfig EXCEPT !.display_weight = Zero, !.random_weight = Zero],
      [DefaultConfig EXCEPT !.display_weight = Zero, !.random_weight = Zero,
                            !.sun_bimodal = FALSE],
      [DefaultConfig EXCEPT !.sun_weight = Zero, !.display_weight = Zero,
                            !.random_weight = Zero],
      [DefaultConfig EXCEPT !.sun_min = Half, !.sun_max = Half] }

\* smart.avoid_repeat as written in the file, valid (0..100) or not
AvoidRepeats == {-1, 0, 1, 2, MAX_SMART_HISTORY, MAX_SMART_HISTORY + 1}

Configs == ScoreConfigs \cup { [DefaultConfig EXCEPT !.avoid_repeat = n] : n \in AvoidRepeats }

\* The signals of one run.  sun: the value of normalized_solar_elevation(...),
\* in [0, 1], or geolocation() fails.  display: the value of
\* display_brightness(n), in [0, 1], None, or its output does not parse.
Signals ==
    { [sun |-> Value(One), display |-> None],
      [sun |-> Value(Zero), display |-> Value(Half)],
      [sun |-> [kind |-> "fail"], display |-> None],
      [sun |-> Value(One), display |-> [kind |-> "fail"]] }

\* random.random() is in [0, 1): every preset draws 0, or one of them 1/2
RandomDraws(S) ==
    { [p \in S |-> Zero] } \cup { [p \in S |-> IF p = q THEN Half ELSE Zero] : q \in S }

\* The smart_history file before the first run: absent, empty, or holding
\* one or two names (one of them of no preset).
InitialFiles ==
    { NoFile,
      write_file(<<>>),
      write_file(<<"a">>),
      write_file(<<"b", "\n", "a">>),
      write_file(<<"z", "\n", "b">>) }

\* The orders in which Python may iterate a set of str (the order depends
\* on the process's hash seed): here the given order and its reverse.
Reverse(s) == [i \in DOMAIN s |-> s[Len(s) + 1 - i]]

SetOrders(s) == { s, Reverse(s) }

(***************************************************************************)
(* Operations.  Every command runs in a process of its own: the process    *)
(* starts with nothing cached, runs one operation and ends.                *)
(***************************************************************************)
EmptyCache == [has |-> FALSE, value |-> <<>>]

\* No operation has run yet in the current process.
Idle == [op |-> "idle"]

\* PresetSelector.smart_choice(score_time, consider_repetition)
PresetSelector_smart_choice(consider_repetition, sun, display, rnd) ==
    /\ call = Idle
    /\ \E names \in {Names(presets)},
          avoid_repeat \in {IF consider_repetition THEN config.avoid_repeat ELSE 0},
          history \in {FileStore_smart_history(smart_history_file)} :
       \E options \in {Options(names, history, avoid_repeat)} :
       \E scores \in {PresetSelector_smart_scores("str", options, config, sun, display, rnd)} :
       \E stage \in {PresetSelector_smart_choice_stage(presets, avoid_repeat, options, scores)} :
           call' = [op |-> "PresetSelector.smart_choice",
                    consider_repetition |-> consider_repetition,
                    sun |-> sun, display |-> display,
                    names |-> names, history |-> history,
                    avoid_repeat |-> avoid_repeat,
                    stage |-> stage,
                    options |-> IF stage \in {"presets", "config"} THEN <<>> ELSE options,
                    result |->
                        CASE stage = "presets" -> FatalError("no color presets to choose from")
                          [] stage = "config" -> FatalError("invalid smart.avoid_repeat config")
                          [] stage = "options" ->
                                 FatalError("cannot satisfy smart.avoid_repeat config")
                          [] stage = "scores" -> scores
                          \* max(options, key=lambda p: scores[p].total): the keys
                          \* are bound methods, which Python cannot order
                          [] stage = "max" -> Raised("TypeError")
                          \* choice.name: choice is a str
                          [] stage = "append" -> Raised("AttributeError")]
    /\ UNCHANGED <<presets, config, favorites_file, interactive, current_file, smart_history_file, cache>>

\* PresetSelector.smart_scores(presets, score_time), called with the Preset
\* objects of the selector
PresetSelector_smart_scores_call(sun, display, rnd) ==
    /\ call = Idle
    /\ call' = [op |-> "PresetSelector.smart_scores",
                sun |-> sun, display |-> display,
                options |-> Names(presets),
                result |-> PresetSelector_smart_scores(
                               "Preset", Names(presets), config, sun, display, rnd)]
    /\ UNCHANGED <<presets, config, favorites_file, interactive, current_file, smart_history_file, cache>>

\* Rainbowterm_smart_choice_file rewriting the file as empty when the call fails.
Rainbowterm_smart_choice_file_reset(stage, file, new_smart_history) ==
    IF stage = "return" THEN FileStore_set_smart_history(new_smart_history)
    ELSE FileStore_set_smart_history(<<>>)

\* The smart_history file after Rainbowterm.smart_choice: the setter runs at
\* line 670 only, after every statement that can fail.
Rainbowterm_smart_choice_file(stage, file, new_smart_history) ==
    IF stage = "return" THEN FileStore_set_smart_history(new_smart_history)
    ELSE file

\* Rainbowterm.command_set with --smart, in a process of its own:
\* Rainbowterm() starts with an empty cache, favorites is the set read from
\* the favorites file (not empty, every member a preset), iterated in the
\* order Python's set gives it, and smart_choice(favorites, score_time,
\* consider_repetition) picks from it.
Rainbowterm_smart_choice(favorites, consider_repetition, sun, display, rnd) ==
    /\ call = Idle
    /\ presets # <<>>
    /\ \E avoid_repeat \in {IF consider_repetition THEN config.avoid_repeat ELSE 0},
          history \in {FileStore_smart_history(smart_history_file)} :
       \E options \in {Options(favorites, history, avoid_repeat)} :
       \E scores \in {Rainbowterm_smart_scores(options, config, sun, display, rnd)} :
       \E stage \in {Rainbowterm_smart_choice_stage(avoid_repeat, options, scores)} :
       \E totals \in {IF stage = "return" THEN Totals(options, scores.scores) ELSE <<>>} :
       \E choice \in {IF stage = "return" THEN FirstMax(options, totals) ELSE <<>>} :
       \E new_smart_history \in {smart_history_iadd(history, choice)} :
           /\ Len(history) <= MaxHist
           /\ call' = [op |-> "Rainbowterm.smart_choice",
                       consider_repetition |-> consider_repetition,
                       sun |-> sun, display |-> display,
                       names |-> favorites, history |-> history,
                       avoid_repeat |-> avoid_repeat,
                       stage |-> stage,
                       options |-> IF stage = "config" THEN <<>> ELSE options,
                       scores |-> IF stage = "return" THEN scores ELSE None,
                       written |-> IF stage = "return" THEN new_smart_history ELSE <<>>,
                       result |->
                           CASE stage = "config" -> fail("invalid smart.avoid_repeat config")
                             [] stage = "options" ->
                                    fail("cannot satisfy smart.avoid_repeat config")
                             [] stage = "scores" -> scores
                             [] stage = "return" -> Value(choice)]
           /\ smart_history_file' =
                  Rainbowterm_smart_choice_file(stage, smart_history_file, new_smart_history)
           /\ cache' =
                  IF stage = "return" THEN [has |-> TRUE, value |-> new_smart_history]
                  ELSE IF stage = "config" \/ avoid_repeat = 0 THEN EmptyCache
                  ELSE [has |-> TRUE, value |-> history]
    /\ UNCHANGED <<presets, config, favorites_file, interactive, current_file>>

\* The process ends after its command: the cache goes with it, the files stay.
Exit ==
    /\ call # Idle
    /\ call' = Idle
    /\ cache' = EmptyCache
    /\ UNCHANGED <<presets, config, favorites_file, interactive, current_file, smart_history_file>>

(***************************************************************************)
(* The selector: presets, configuration and history file are given; each   *)
(* step is one run of smart_choice.                                        *)
(***************************************************************************)
Init ==
    /\ presets \in PresetLists
    /\ config \in Configs
    /\ smart_history_file \in InitialFiles
    /\ current_file = None
    /\ favorites_file = NoFile
    /\ interactive = None
    /\ cache = EmptyCache
    /\ call = Idle

Next ==
    \/ \E consider_repetition \in BOOLEAN, env \in Signals,
          rnd \in RandomDraws(Range(Names(presets))) :
           PresetSelector_smart_choice(consider_repetition, env.sun, env.display, rnd)
    \/ \E favorites \in SetOrders(Names(presets)),
          consider_repetition \in BOOLEAN, env \in Signals,
          rnd \in RandomDraws(Range(Names(presets))) :
           Rainbowterm_smart_choice(favorites, consider_repetition, env.sun, env.display, rnd)
    \/ \E env \in Signals, rnd \in RandomDraws(Range(Names(presets))) :
           PresetSelector_smart_scores_call(env.sun, env.display, rnd)
    \/ Exit

Spec == Init /\ [][Next]_vars

(***************************************************************************)
(* The selector run again and again with consider_repetition set, on a     *)
(* history that starts empty: every entry of the history is a choice of    *)
(* one of these runs.                                                      *)
(***************************************************************************)
InitRepeat ==
    /\ presets \in PresetLists
    /\ config \in Configs
    /\ smart_history_file \in {NoFile, write_file(<<>>)}
    /\ current_file = None
    /\ favorites_file = NoFile
    /\ interactive = None
    /\ cache = EmptyCache
    /\ call = Idle

NextRepeat ==
    \/ \E env \in Signals, rnd \in RandomDraws(Range(Names(presets))) :
           PresetSelector_smart_choice(TRUE, env.sun, env.display, rnd)
    \/ \E favorites \in SetOrders(Names(presets)), env \in Signals,
          rnd \in RandomDraws(Range(Names(presets))) :
           Rainbowterm_smart_choice(favorites, TRUE, env.sun, env.display, rnd)
    \/ Exit

SpecRepeat == InitRepeat /\ [][NextRepeat]_vars

(***************************************************************************)
(* The store of the smart history on its own: lists are written to it and  *)
(* read back, through FileStore (stateless) and through Rainbowterm, whose  *)
(* reader and writer decorators keep the value in self.cache for the rest  *)
(* of the process.                                                         *)
(***************************************************************************)
\* Entries written to the store: three names without whitespace and a name
\* with a space in it.
StoreEntries == { <<"a">>, <<"b">>, <<"c">>, <<"x", " ", "y">> }

\* Lists of at most MaxShort entries.
ShortLists == UNION { [1..n -> StoreEntries] : n \in 0..MaxShort }

\* n names, the three preset names in rotation.
CyclicList(n) == [i \in 1..n |-> PresetNames[((i - 1) % 3) + 1]]

\* Lists around the maximal length of the history.
LongLists == { CyclicList(n) : n \in (MAX_SMART_HISTORY - 1)..(MAX_SMART_HISTORY + MaxOver) }

StoreLists == ShortLists \cup LongLists

\* The operations of a Rainbowterm object: they share its cache.
RainbowtermStoreOps == {"Rainbowterm.smart_history", "Rainbowterm.smart_history.setter"}

\* value = filestore.smart_history
FileStore_get_smart_history ==
    /\ call = Idle
    /\ call' = [op |-> "FileStore.smart_history",
                result |-> FileStore_smart_history(smart_history_file)]
    /\ UNCHANGED <<presets, config, favorites_file, interactive, current_file, smart_history_file, cache>>

\* filestore.smart_history = new_smart_history
FileStore_put_smart_history(new_smart_history) ==
    /\ call = Idle
    /\ smart_history_file' = FileStore_set_smart_history(new_smart_history)
    /\ call' = [op |-> "FileStore.smart_history.setter", written |-> new_smart_history]
    /\ UNCHANGED <<presets, config, favorites_file, interactive, current_file, cache>>

\* value = self.smart_history, through the reader decorator: the cached
\* value when there is one, else the file's, which is then cached
Rainbowterm_get_smart_history ==
    /\ call = Idle \/ call.op \in RainbowtermStoreOps
    /\ \E value \in {IF cache.has THEN cache.value
                     ELSE FileStore_smart_history(smart_history_file)} :
           /\ cache' = [has |-> TRUE, value |-> value]
           /\ call' = [op |-> "Rainbowterm.smart_history", result |-> value]
    /\ UNCHANGED <<presets, config, favorites_file, interactive, current_file, smart_history_file>>

\* self.smart_history = new_smart_history, through the writer decorator:
\* the file gets the last MAX_SMART_HISTORY entries, the cache the value
\* as given
Rainbowterm_put_smart_history(new_smart_history) ==
    /\ call = Idle \/ call.op \in RainbowtermStoreOps
    /\ smart_history_file' = FileStore_set_smart_history(new_smart_history)
    /\ cache' = [has |-> TRUE, value |-> new_smart_history]
    /\ call' = [op |-> "Rainbowterm.smart_history.setter", written |-> new_smart_history]
    /\ UNCHANGED <<presets, config, favorites_file, interactive, current_file>>

\* favorites = filestore.favorites
FileStore_get_favorites ==
    /\ call = Idle
    /\ call' = [op |-> "FileStore.favorites", result |-> FileStore_favorites(favorites_file)]
    /\ UNCHANGED <<presets, config, favorites_file, interactive, current_file, smart_history_file, cache>>

\* filestore.favorites = new_favorites
FileStore_put_favorites(new_favorites) ==
    /\ call = Idle
    /\ favorites_file' = FileStore_set_favorites(new_favorites)
    /\ call' = [op |-> "FileStore.favorites.setter", written |-> new_favorites]
    /\ UNCHANGED <<presets, config, interactive, current_file, smart_history_file, cache>>

InitStore ==
    /\ presets = <<>>
    /\ config = DefaultConfig
    /\ smart_history_file \in InitialFiles
    /\ current_file = None
    /\ favorites_file \in {NoFile, write_file(<<"b", "\n", "a">>)}
    /\ interactive = None
    /\ cache = EmptyCache
    /\ call = Idle

NextStore ==
    \/ FileStore_get_smart_history
    \/ \E new_smart_history \in StoreLists : FileStore_put_smart_history(new_smart_history)
    \/ Rainbowterm_get_smart_history
    \/ \E new_smart_history \in StoreLists : Rainbowterm_put_smart_history(new_smart_history)
    \/ FileStore_get_favorites
    \/ \E new_favorites \in SUBSET StoreEntries : FileStore_put_favorites(new_favorites)
    \/ Exit

SpecStore == InitStore /\ [][NextStore]_vars

(***************************************************************************)
(* The light/dark alternate of a preset, looked up by name:                *)
(* PresetSelector.light_dark_alternate and Rainbowterm.light_dark, which   *)
(* are the same code.  A name is a sequence of the tokens "light", "dark", *)
(* "-" and "a" (any other text): no occurrence of a label straddles two    *)
(* tokens, so str.replace acts on the tokens.                              *)
(***************************************************************************)
\* for a, b in [("light", "dark"), ("dark", "light")]
LabelPairs == << <<"light", "dark">>, <<"dark", "light">> >>

\* A label with the hyphen first.
Labels_hyphen_first(label) == << <<"-", label>>, <<label>> >>

\* [a, "-" + a]
Labels(label) == << <<label>>, <<"-", label>> >>

\* The arguments of the n-th str.replace of the four nested loops, counted
\* from 0: n = 8 * (index of a, b) + 4 * (index of c) + 2 * (index of d)
\* + (index of replacement).
Replacement(n) ==
    LET ab == LabelPairs[(n \div 8) + 1]
        c == Labels(ab[1])[((n \div 4) % 2) + 1]
        d == Labels(ab[2])[((n \div 2) % 2) + 1]
    IN  IF n % 2 = 0 THEN <<c, <<>> >> ELSE <<c, d>>

\* The loops from the n-th iteration on: the first other that differs from
\* preset_name and is a preset, or None.
RECURSIVE light_dark_from(_, _, _)
light_dark_from(names, preset_name, n) ==
    IF n = 16 THEN None
    ELSE LET other == Replace(preset_name, Replacement(n)[1], Replacement(n)[2])
         IN  IF other # preset_name /\ other \in names THEN Value(other)
             ELSE light_dark_from(names, preset_name, n + 1)

\* The lookup with the tests of the loop body forgotten: the first candidate,
\* whether or not it differs from preset_name and is a preset.
light_dark_alternate_unchecked(names, preset_name) ==
    Value(Replace(preset_name, Replacement(0)[1], Replacement(0)[2]))

\* light_dark_alternate(preset_name) with names = the keys of self.presets
light_dark_alternate(names, preset_name) == light_dark_from(names, preset_name, 0)

\* PresetSelector.light_dark_alternate(preset_name)
PresetSelector_light_dark_alternate(preset_name) ==
    /\ call = Idle
    /\ preset_name \in Range(Names(presets))
    /\ call' = [op |-> "PresetSelector.light_dark_alternate",
                preset_name |-> preset_name,
                result |-> light_dark_alternate(Range(Names(presets)), preset_name)]
    /\ UNCHANGED <<presets, config, favorites_file, interactive, current_file, smart_history_file, cache>>

\* Rainbowterm.light_dark(preset)
Rainbowterm_light_dark(preset) ==
    /\ call = Idle
    /\ preset \in Range(Names(presets))
    /\ call' = [op |-> "Rainbowterm.light_dark",
                preset_name |-> preset,
                result |-> light_dark_alternate(Range(Names(presets)), preset)]
    /\ UNCHANGED <<presets, config, favorites_file, interactive, current_file, smart_history_file, cache>>

\* The names presets are taken from.
LDPool ==
    << <<"a", "-", "light">>, <<"a", "-", "dark">>, <<"a">>, <<"a", "-">>,
       <<"a", "light">>, <<"a", "dark">>, <<"a", "-", "-", "dark">>,
       <<"light">>, <<"dark">>, <<"-", "dark">>,
       <<"light", "-", "dark">>, <<"light", "-", "light">>,
       <<"a", "-", "light", "-", "light">>, <<"a", "-", "dark", "-", "dark">> >>

\* The preset collections: at most MaxLD names of the pool, in its order.
LDPresetLists ==
    { [i \in DOMAIN idx |-> Preset(LDPool[idx[i]], Medium)] :
        idx \in { s \in UNION { [1..n -> DOMAIN LDPool] : n \in 1..MaxLD } :
                    \A i \in DOMAIN s : \A j \in DOMAIN s : i < j => s[i] < s[j] } }

InitLD ==
    /\ presets \in LDPresetLists
    /\ config = DefaultConfig
    /\ smart_history_file = NoFile
    /\ current_file = None
    /\ favorites_file = NoFile
    /\ interactive = None
    /\ cache = EmptyCache
    /\ call = Idle

NextLD ==
    \/ \E preset_name \in Range(LDPool) : PresetSelector_light_dark_alternate(preset_name)
    \/ \E preset \in Range(LDPool) : Rainbowterm_light_dark(preset)
    \/ Exit

SpecLD == InitLD /\ [][NextLD]_vars

(***************************************************************************)
(* colors: BitColor, LinearColor, Colors.  A BitColor is a record of three *)
(* integers r, g, b in 0..255, a LinearColor a record of three floats, a   *)
(* Colors value the dict of its roles, a function from role to BitColor.   *)
(* The sRGB curve ((x + 0.055) / 1.055) ** 2.4 has no exact rational       *)
(* value; the model keeps it to four decimals, in units of 1/LinearScale.  *)
(***************************************************************************)
FG == "Foreground Color"

BG == "Background Color"

LinearScale == 10000

\* The f of BitColor.to_linear at x = j / 2 for j = 0..510, times
\* LinearScale and rounded: x / 255 / 12.92 up to 0.04045 * 255, then
\* ((x / 255 + 0.055) / 1.055) ** 2.4.  The entries at whole x are the
\* linear values of the 256 channel values; the entries at x = k + 1/2 are
\* where the f of BitColor.from_linear, the inverse curve times 255, passes
\* from rounding to k to rounding to k + 1.
SRGBToLinear ==
    << 0, 2, 3, 5, 6, 8, 9, 11, 12, 14, 15, 17,
       18, 20, 21, 23, 24, 26, 27, 29, 30, 32, 33, 35,
       37, 38, 40, 42, 44, 46, 48, 50, 52, 54, 56, 58,
       60, 63, 65, 68, 70, 72, 75, 78, 80, 83, 86, 88,
       91, 94, 97, 100, 103, 106, 110, 113, 116, 119, 123, 126,
       130, 133, 137, 141, 144, 148, 152, 156, 160, 164, 168, 172,
       176, 181, 185, 189, 194, 198, 203, 208, 212, 217, 222, 227,
       232, 237, 242, 247, 252, 257, 262, 268, 273, 279, 284, 290,
       296, 301, 307, 313, 319, 325, 331, 337, 343, 350, 356, 362,
       369, 375, 382, 389, 395, 402, 409, 416, 423, 430, 437, 445,
       452, 459, 467, 474, 482, 489, 497, 505, 513, 521, 529, 537,
       545, 553, 561, 570, 578, 587, 595, 604, 612, 621, 630, 639,
       648, 657, 666, 675, 685, 694, 704, 713, 723, 732, 742, 752,
       762, 772, 782, 792, 802, 812, 823, 833, 844, 854, 865, 876,
       887, 897, 908, 919, 931, 942, 953, 964, 976, 987, 999, 1011,
       1022, 1034, 1046, 1058, 1070, 1082, 1095, 1107, 1119, 1132, 1144, 1157,
       1170, 1183, 1195, 1208, 1221, 1235, 1248, 1261, 1274, 1288, 1301, 1315,
       1329, 1342, 1356, 1370, 1384, 1398, 1413, 1427, 1441, 1456, 1470, 1485,
       1500, 1514, 1529, 1544, 1559, 1574, 1590, 1605, 1620, 1636, 1651, 1667,
       1683, 1699, 1714, 1730, 1746, 1763, 1779, 1795, 1812, 1828, 1845, 1861,
       1878, 1895, 1912, 1929, 1946, 1963, 1981, 1998, 2016, 2033, 2051, 2069,
       2086, 2104, 2122, 2140, 2159, 2177, 2195, 2214, 2232, 2251, 2270, 2288,
       2307, 2326, 2346, 2365, 2384, 2403, 2423, 2442, 2462, 2482, 2502, 2522,
       2542, 2562, 2582, 2602, 2623, 2643, 2664, 2684, 2705, 2726, 2747, 2768,
       2789, 2810, 2831, 2853, 2874, 2896, 2918, 2939, 2961, 2983, 3005, 3028,
       3050, 3072, 3095, 3117, 3140, 3163, 3185, 3208, 3231, 3255, 3278, 3301,
       3325, 3348, 3372, 3395, 3419, 3443, 3467, 3491, 3515, 3540, 3564, 3588,
       3613, 3638, 3663, 3687, 3712, 3737, 3763, 3788, 3813, 3839, 3864, 3890,
       3916, 3942, 3968, 3994, 4020, 4046, 4072, 4099, 4125, 4152, 4179, 4206,
       4233, 4260, 4287, 4314, 4342, 4369, 4397, 4424, 4452, 4480, 4508, 4536,
       4564, 4592, 4621, 4649, 4678, 4707, 4735, 4764, 4793, 4822, 4851, 4881,
       4910, 4940, 4969, 4999, 5029, 5059, 5089, 5119, 5149, 5180, 5210, 5241,
       5271, 5302, 5333, 5364, 5395, 5426, 5457, 5489, 5520, 5552, 5583, 5615,
       5647, 5679, 5711, 5743, 5776, 5808, 5841, 5873, 5906, 5939, 5972, 6005,
       6038, 6072, 6105, 6138, 6172, 6206, 6240, 6274, 6308, 6342, 6376, 6410,
       6445, 6479, 6514, 6549, 6584, 6619, 6654, 6689, 6724, 6760, 6795, 6831,
       6867, 6903, 6939, 6975, 7011, 7047, 7084, 7120, 7157, 7194, 7231, 7268,
       7305, 7342, 7379, 7417, 7454, 7492, 7529, 7567, 7605, 7643, 7682, 7720,
       7758, 7797, 7835, 7874, 7913, 7952, 7991, 8030, 8070, 8109, 8148, 8188,
       8228, 8268, 8308, 8348, 8388, 8428, 8469, 8509, 8550, 8591, 8632, 8673,
       8714, 8755, 8796, 8838, 8879, 8921, 8963, 9005, 9047, 9089, 9131, 9173,
       9216, 9258, 9301, 9344, 9387, 9430, 9473, 9516, 9560, 9603, 9647, 9691,
       9734, 9778, 9823, 9867, 9911, 9955, 10000 >>

\* BitColor.to_linear, f(x): the linear value of the channel value x
to_linear_f(x) == Rat(SRGBToLinear[2 * x + 1], LinearScale)

\* round(v) of a float v whose floor is n: Python rounds a tie to even.
RoundHalfEven(n, tie) == IF tie /\ n % 2 = 1 THEN n + 1 ELSE n

\* The encoding without the curve: round(x * 255).
from_linear_f_no_gamma(x) ==
    LET n == (2 * 255 * x[1] + x[2]) \div (2 * x[2])
    IN  IF n < 0 THEN 0 ELSE IF n > 255 THEN 255 ELSE n

\* The least k in lo..hi for which the linear value of the half step
\* k + 1/2 is not below x (hi when there is none), found by bisection:
\* SRGBToLinear is increasing.
RECURSIVE HalfStepsBelow(_, _, _)
HalfStepsBelow(x, lo, hi) ==
    IF lo = hi THEN lo
    ELSE LET k == (lo + hi) \div 2
         IN  IF SRGBToLinear[2 * k + 2] * x[2] < x[1] * LinearScale
             THEN HalfStepsBelow(x, k + 1, hi)
             ELSE HalfStepsBelow(x, lo, k)

\* BitColor.from_linear, f(x) = round(map_number(curve(x), (0, 1), (0, 255))):
\* the curve is increasing and inverts to_linear's, so the result is the
\* number of half steps k + 1/2 whose linear value lies below x (at most
\* 255, at least 0: map_number clamps), a tie rounding to even.
from_linear_f(x) ==
    LET n == HalfStepsBelow(x, 0, 255)
    IN  RoundHalfEven(n, n < 255 /\ SRGBToLinear[2 * n + 2] * x[2] = x[1] * LinearScale)

\* BitColor.to_linear()
BitColor_to_linear(color) ==
    [r |-> to_linear_f(color.r), g |-> to_linear_f(color.g), b |-> to_linear_f(color.b)]

\* BitColor.from_linear(color)
BitColor_from_linear(color) ==
    [r |-> from_linear_f(color.r), g |-> from_linear_f(color.g),
     b |-> from_linear_f(color.b)]

\* The interpolation run from the other end: x2 + t * (x1 - x2).
interpolate_from_end(x1, x2, t) == RAdd(x2, RMul(t, RSub(x1, x2)))

\* calc.interpolate(x1, x2, t) = x1 + t * (x2 - x1)
interpolate(x1, x2, t) == RAdd(x1, RMul(t, RSub(x2, x1)))

\* The constructor that checks the channels from below only.
LinearColor_unbounded_above(r, g, b) ==
    IF \A x \in {r, g, b} : RLe(Zero, x)
    THEN Value([r |-> r, g |-> g, b |-> b])
    ELSE Raised("AssertionError")

\* LinearColor(r, g, b) asserts that the channels are within 0..1.
LinearColor(r, g, b) ==
    IF \A x \in {r, g, b} : RLe(Zero, x) /\ RLe(x, One)
    THEN Value([r |-> r, g |-> g, b |-> b])
    ELSE Raised("AssertionError")

\* BitColor(r, g, b) asserts that the channels are within 0..255.
BitColor(r, g, b) ==
    IF \A x \in {r, g, b} : 0 <= x /\ x <= 255
    THEN Value([r |-> r, g |-> g, b |-> b])
    ELSE Raised("AssertionError")

\* LinearColor.interpolate(other, t)
LinearColor_interpolate(self, other, t) ==
    LinearColor(interpolate(self.r, other.r, t), interpolate(self.g, other.g, t),
                interpolate(self.b, other.b, t))

\* The least common multiple of two positive integers.
LCM(x, y) == (x \div GCD(x, y)) * y

\* LinearColor.relative_luminance() = 0.2126 r + 0.7152 g + 0.0722 b, summed
\* over the common denominator d of the channels.
relative_luminance(color) ==
    LET d == LCM(color.r[2], LCM(color.g[2], color.b[2]))
    IN  Rat(2126 * color.r[1] * (d \div color.r[2])
                + 7152 * color.g[1] * (d \div color.g[2])
                + 722 * color.b[1] * (d \div color.b[2]),
            10000 * d)

\* Colors(values) asserts that the foreground and background are there.
Colors(values) ==
    IF FG \in DOMAIN values /\ BG \in DOMAIN values THEN Value(values)
    ELSE Raised("AssertionError")

\* The contrast ratio taken from foreground to background, whichever is the
\* lighter.
Colors_contrast_ratio_directed(values) ==
    LET r1 == relative_luminance(BitColor_to_linear(values[FG]))
        r2 == relative_luminance(BitColor_to_linear(values[BG]))
        d == LCM(r1[2], r2[2])
    IN  clamp(Rat(r1[1] * (d \div r1[2]) - r2[1] * (d \div r2[2]),
                  20 * r2[1] * (d \div r2[2]) + d), <<Zero, One>>)

\* Colors.contrast_ratio(): with r1 = n1 / d and r2 = n2 / d the luminances
\* of foreground and background over a common denominator,
\*     ((lighter + 0.05) / (darker + 0.05) - 1) / 20
\*         = ((20 nl + d) / (20 nd + d) - 1) / 20 = (nl - nd) / (20 nd + d),
\* clamped to 0..1.
Colors_contrast_ratio(values) ==
    LET r1 == relative_luminance(BitColor_to_linear(values[FG]))
        r2 == relative_luminance(BitColor_to_linear(values[BG]))
        d == LCM(r1[2], r2[2])
        n1 == r1[1] * (d \div r1[2])
        n2 == r2[1] * (d \div r2[2])
        lighter == IF n2 > n1 THEN n2 ELSE n1
        darker == IF n2 < n1 THEN n2 ELSE n1
    IN  clamp(Rat(lighter - darker, 20 * darker + d), <<Zero, One>>)

\* One role of Colors.interpolate: both colors converted to linear,
\* interpolated and converted back.
BitColor_interpolate(c1, c2, t) ==
    LET Encode(linear) ==
            IF linear.kind = "value" THEN Value(BitColor_from_linear(linear.v))
            ELSE linear
    IN  Encode(LinearColor_interpolate(BitColor_to_linear(c1), BitColor_to_linear(c2), t))

\* The interpolation that keeps every role of self, the roles other lacks
\* with their colors in self.
Colors_interpolate_keep_roles(self, other, t) ==
    LET Collect(values) ==
            IF \E name \in DOMAIN values : values[name].kind # "value"
            THEN Raised("AssertionError")
            ELSE Colors([name \in DOMAIN values |-> values[name].v])
    IN  Collect([name \in DOMAIN self |->
                    IF name \in DOMAIN other
                    THEN BitColor_interpolate(self[name], other[name], t)
                    ELSE Value(self[name])])

\* Colors.interpolate(other, t): the roles of both, each interpolated; the
\* first failed assertion ends the call.
Colors_interpolate(self, other, t) ==
    LET Collect(values) ==
            IF \E name \in DOMAIN values : values[name].kind # "value"
            THEN Raised("AssertionError")
            ELSE Colors([name \in DOMAIN values |-> values[name].v])
    IN  Collect([name \in DOMAIN self \cap DOMAIN other |->
                    BitColor_interpolate(self[name], other[name], t)])

(***************************************************************************)
(* The color functions on their own: each step applies one of them to      *)
(* values of the pools below.                                              *)
(***************************************************************************)
BLACK == [r |-> 0, g |-> 0, b |-> 0]

WHITE == [r |-> 255, g |-> 255, b |-> 255]

\* The colors that fill the roles.
BitColorPool ==
    { BLACK, WHITE, [r |-> 10, g |-> 11, b |-> 128], [r |-> 253, g |-> 246, b |-> 227] }

\* The colors converted to linear and back: every gray, and the pool.
ChannelColors == { [r |-> x, g |-> x, b |-> x] : x \in 0..255 } \cup BitColorPool

\* make_colors(fg, bg), with further roles colored like the background
MakeColors(roles, fg, bg) ==
    [role \in roles \cup {FG, BG} |-> IF role = FG THEN fg ELSE bg]

\* The optional roles a Colors value has besides foreground and background.
RoleSets == { {}, {"Bold Color"}, {"Link Color"} }

ColorsPool ==
    { MakeColors(roles, fg, bg) : roles \in RoleSets, fg \in BitColorPool, bg \in BitColorPool }

\* The values of t: the ends, points between them, and one beyond.
Parameters == { Zero, <<1, 3>>, Half, One, <<3, 2>> }

\* color.to_linear()
BitColor_to_linear_call(color) ==
    /\ call = Idle
    /\ call' = [op |-> "BitColor.to_linear", color |-> color,
                result |-> BitColor_to_linear(color)]
    /\ UNCHANGED <<presets, config, favorites_file, interactive, current_file, smart_history_file, cache>>

\* BitColor.from_linear(linear), linear being the LinearColor the process
\* got from to_linear
BitColor_from_linear_call ==
    /\ call.op = "BitColor.to_linear"
    /\ call' = [op |-> "BitColor.from_linear", color |-> call.color,
                linear |-> call.result,
                result |-> BitColor_from_linear(call.result)]
    /\ UNCHANGED <<presets, config, favorites_file, interactive, current_file, smart_history_file, cache>>

\* self.interpolate(other, t)
Colors_interpolate_call(self, other, t) ==
    /\ call = Idle
    /\ call' = [op |-> "Colors.interpolate", self |-> self, other |-> other, t |-> t,
                result |-> Colors_interpolate(self, other, t)]
    /\ UNCHANGED <<presets, config, favorites_file, interactive, current_file, smart_history_file, cache>>

\* colors.contrast_ratio()
Colors_contrast_ratio_call(colors) ==
    /\ call = Idle
    /\ call' = [op |-> "Colors.contrast_ratio", colors |-> colors,
                result |-> Colors_contrast_ratio(colors)]
    /\ UNCHANGED <<presets, config, favorites_file, interactive, current_file, smart_history_file, cache>>

InitColors ==
    /\ presets = <<>>
    /\ config = DefaultConfig
    /\ smart_history_file = NoFile
    /\ current_file = None
    /\ favorites_file = NoFile
    /\ interactive = None
    /\ cache = EmptyCache
    /\ call = Idle

NextColors ==
    \/ \E color \in ChannelColors : BitColor_to_linear_call(color)
    \/ BitColor_from_linear_call
    \/ \E self \in ColorsPool, other \in ColorsPool, t \in Parameters :
           Colors_interpolate_call(self, other, t)
    \/ \E colors \in ColorsPool : Colors_contrast_ratio_call(colors)
    \/ Exit

SpecColors == InitColors /\ [][NextColors]_vars

(***************************************************************************)
(* The constructors of the color classes on their own: each step           *)
(* constructs one value from arguments of the sets below.                  *)
(***************************************************************************)
\* Channels of a BitColor: the ends of 0..255, a value within and the
\* integers next to the ends.
BitChannels == {-1, 0, 128, 255, 256}

\* Channels of a LinearColor: the ends of 0..1, a value within and values
\* just beyond the ends.
LinearChannels == { <<-1, 10>>, Zero, Half, One, <<11, 10>> }

\* The dicts a Colors value is made from: any of three roles, each black or
\* white.
ColorsValues ==
    UNION { [roles -> {BLACK, WHITE}] : roles \in SUBSET {FG, BG, "Bold Color"} }

\* BitColor(r, g, b)
BitColor_init(r, g, b) ==
    /\ call = Idle
    /\ call' = [op |-> "BitColor", r |-> r, g |-> g, b |-> b, result |-> BitColor(r, g, b)]
    /\ UNCHANGED <<presets, config, favorites_file, interactive, current_file, smart_history_file, cache>>

\* LinearColor(r, g, b)
LinearColor_init(r, g, b) ==
    /\ call = Idle
    /\ call' = [op |-> "LinearColor", r |-> r, g |-> g, b |-> b,
                result |-> LinearColor(r, g, b)]
    /\ UNCHANGED <<presets, config, favorites_file, interactive, current_file, smart_history_file, cache>>

\* Colors(values)
Colors_init(values) ==
    /\ call = Idle
    /\ call' = [op |-> "Colors", values |-> values, result |-> Colors(values)]
    /\ UNCHANGED <<presets, config, favorites_file, interactive, current_file, smart_history_file, cache>>

InitConstructors ==
    /\ presets = <<>>
    /\ config = DefaultConfig
    /\ smart_history_file = NoFile
    /\ current_file = None
    /\ favorites_file = NoFile
    /\ interactive = None
    /\ cache = EmptyCache
    /\ call = Idle

NextConstructors ==
    \/ \E r \in BitChannels, g \in BitChannels, b \in BitChannels : BitColor_init(r, g, b)
    \/ \E r \in LinearChannels, g \in LinearChannels, b \in LinearChannels :
           LinearColor_init(r, g, b)
    \/ \E values \in ColorsValues : Colors_init(values)
    \/ Exit

SpecConstructors == InitConstructors /\ [][NextConstructors]_vars

(***************************************************************************)
(* The fading animation.  PresetSelector.animation_frames is a generator:  *)
(* calling it runs nothing, each next() runs it to its next yield.  The    *)
(* single-file script's animate_preset runs the whole loop, printing the   *)
(* escape codes of every frame.  Presets here are records of a name, the   *)
(* Colors and cs, the color space the custom preset declares for its       *)
(* colors (only the script reads it).                                      *)
(***************************************************************************)
\* Largest number of frames configured.
MaxFrames == 3

\* The loop that stops one frame early.
animation_range_short(frames) == 1..(frames - 1)

\* range(1, frames + 1), the values of i of both animation loops
animation_range(frames) == 1..frames

\* animation_frames(start_preset_name, end_preset_name): the generator object
PresetSelector_animation_frames(start_preset_name, end_preset_name) ==
    /\ call = Idle
    /\ call' = [op |-> "PresetSelector.animation_frames",
                start |-> start_preset_name, end |-> end_preset_name,
                state |-> "created", i |-> 0, yielded |-> <<>>, result |-> None]
    /\ UNCHANGED <<presets, config, favorites_file, interactive, current_file, smart_history_file, cache>>

\* next() on the generator: from the start, or from the yield of frame i, to
\* the next yield, to the end of the loop or to an exception
animation_frames_next ==
    /\ call.op = "PresetSelector.animation_frames"
    /\ call.state \in {"created", "suspended"}
    /\ \E names \in {Range(Names(presets))}, i \in {call.i + 1} :
       \E result \in
              { IF call.state = "created" /\ ~(config.frames > 0)
                THEN FatalError("invalid animation.frames config")
                ELSE IF call.state = "created" /\ {call.start, call.end} \ names # {}
                THEN Raised("KeyError")
                ELSE IF i \notin animation_range(config.frames) THEN Raised("StopIteration")
                ELSE Colors_interpolate(
                         presets[CHOOSE k \in DOMAIN presets : presets[k].name = call.start].colors,
                         presets[CHOOSE k \in DOMAIN presets : presets[k].name = call.end].colors,
                         Rat(i, config.frames)) } :
           call' = [call EXCEPT
                      !.result = result,
                      !.state = CASE result.kind = "value" -> "suspended"
                                  [] result.kind = "StopIteration" -> "finished"
                                  [] OTHER -> "raised",
                      !.i = IF result.kind = "value" THEN i ELSE @,
                      !.yielded = IF result.kind = "value" THEN Append(@, result.v) ELSE @]
    /\ UNCHANGED <<presets, config, favorites_file, interactive, current_file, smart_history_file, cache>>

\* PLIST_COLOR_KEYS, for the roles of the model
PLIST_COLOR_KEYS ==
    [role \in {FG, BG, "Bold Color", "Link Color"} |->
        CASE role = FG -> "fg" [] role = BG -> "bg"
          [] role = "Bold Color" -> "bold" [] role = "Link Color" -> "link"]

\* COLOR_NAMES, for the roles of the model
COLOR_NAMES == <<"fg", "bg", "bold", "link">>

\* The scheme command_load stores for a preset: for each color its key of
\* COLOR_NAMES and the components cs, r, g, b, the channels as reals of 0..1.
Scheme(preset) ==
    [name \in { PLIST_COLOR_KEYS[role] : role \in DOMAIN preset.colors } |->
        LET color == preset.colors[CHOOSE role \in DOMAIN preset.colors :
                                       PLIST_COLOR_KEYS[role] = name]
        IN  [cs |-> preset.cs, r |-> Rat(color.r, 255), g |-> Rat(color.g, 255),
             b |-> Rat(color.b, 255)]]

\* schemes_are_compatible(scheme1, scheme2)
schemes_are_compatible(scheme1, scheme2) ==
    \A name \in Range(COLOR_NAMES) :
        (name \in DOMAIN scheme1 /\ name \in DOMAIN scheme2)
            => scheme1[name].cs = scheme2[name].cs

\* interpolate_color(color1, color2, t), for colors of one color space
interpolate_color(color1, color2, t) ==
    [cs |-> color1.cs, r |-> interpolate(color1.r, color2.r, t),
     g |-> interpolate(color1.g, color2.g, t), b |-> interpolate(color1.b, color2.b, t)]

\* hex_color_value(color): the str cs:RRGGBB, a component being
\* clamp(round(float(real) * 255), 0, 255) in two hexadecimal digits
hex_color_value(color) ==
    LET Digits == <<"0", "1", "2", "3", "4", "5", "6", "7",
                    "8", "9", "a", "b", "c", "d", "e", "f">>
        Round(v) ==
            IF 2 * (v[1] % v[2]) = v[2] THEN RoundHalfEven(v[1] \div v[2], TRUE)
            ELSE IF 2 * (v[1] % v[2]) > v[2] THEN (v[1] \div v[2]) + 1
            ELSE v[1] \div v[2]
        Byte(n) == IF n < 0 THEN 0 ELSE IF n > 255 THEN 255 ELSE n
        Hex(byte) == <<Digits[(byte \div 16) + 1], Digits[(byte % 16) + 1]>>
        real_to_hex(real) == Hex(Byte(Round(RMul(real, <<255, 1>>))))
    IN  <<color.cs, ":">> \o real_to_hex(color.r) \o real_to_hex(color.g)
            \o real_to_hex(color.b)

\* The SetColors escape codes animate_preset prints for frame i: key and
\* value, for the names of COLOR_NAMES, in its order, that both schemes have.
animate_preset_frame(start_scheme, end_scheme, t) ==
    LET names == SelectSeq(COLOR_NAMES,
                           LAMBDA name : name \in DOMAIN start_scheme
                                             /\ name \in DOMAIN end_scheme)
    IN  [k \in DOMAIN names |->
            <<names[k], hex_color_value(interpolate_color(start_scheme[names[k]],
                                                          end_scheme[names[k]], t))>>]

\* Rainbowterm.animate_preset(preset): the frames, then set_preset(preset),
\* which writes the current preset; printed is what the terminal received.
Rainbowterm_animate_preset(preset) ==
    /\ call = Idle
    /\ \E names \in {Range(Names(presets))} :
       \E result \in
              { IF ~(config.frames > 0) THEN fail("invalid animation.frames config")
                ELSE IF ~(config.sleep >= 0) THEN fail("invalid animation.sleep config")
                ELSE IF ~(config.reset_delay >= 0)
                THEN fail("invalid animation.reset_delay config")
                ELSE IF current_file = None THEN fail("current preset unknown")
                ELSE IF {current_file.v, preset} \ names # {} THEN Raised("KeyError")
                ELSE IF ~schemes_are_compatible(
                            Scheme(presets[CHOOSE k \in DOMAIN presets :
                                               presets[k].name = current_file.v]),
                            Scheme(presets[CHOOSE k \in DOMAIN presets :
                                               presets[k].name = preset]))
                THEN fail("incompatible colorspaces")
                ELSE Value(preset) } :
       \E printed \in
              { IF result.kind # "value" THEN <<>>
                ELSE LET start_scheme == Scheme(presets[CHOOSE k \in DOMAIN presets :
                                                            presets[k].name = current_file.v])
                         end_scheme == Scheme(presets[CHOOSE k \in DOMAIN presets :
                                                          presets[k].name = preset])
                     IN  [i \in animation_range(config.frames) |->
                             animate_preset_frame(start_scheme, end_scheme,
                                                  Rat(i, config.frames))] } :
           /\ call' = [op |-> "Rainbowterm.animate_preset",
                       start |-> current_file, end |-> preset,
                       printed |-> printed, result |-> result]
           /\ current_file' = IF result.kind = "value" THEN Value(preset) ELSE current_file
    /\ UNCHANGED <<presets, config, favorites_file, interactive, smart_history_file, cache>>

\* The colors of the presets of the animation.
AnimationColors ==
    { MakeColors({}, BLACK, WHITE),
      MakeColors({"Bold Color"}, [r |-> 10, g |-> 11, b |-> 128],
                 [r |-> 253, g |-> 246, b |-> 227]),
      MakeColors({"Link Color"}, WHITE, BLACK) }

\* Two presets a and b; b may declare another color space than a.
AnimationPresetLists ==
    { << [name |-> <<"a">>, colors |-> a, cs |-> "sRGB"],
         [name |-> <<"b">>, colors |-> b, cs |-> cs] >> :
        a \in AnimationColors, b \in AnimationColors, cs \in {"sRGB", "P3"} }

\* The [animation] section: frames from -1 to MaxFrames with the default
\* sleep and reset_delay, and a negative sleep and reset_delay.
AnimationConfigs ==
    { [frames |-> f, sleep |-> 50, reset_delay |-> 500] : f \in (-1)..MaxFrames }
        \cup { [frames |-> 1, sleep |-> -1, reset_delay |-> 500],
               [frames |-> 1, sleep |-> 50, reset_delay |-> -1] }

InitAnimation ==
    /\ presets \in AnimationPresetLists
    /\ config \in AnimationConfigs
    /\ smart_history_file = NoFile
    /\ current_file \in {None, Value(<<"a">>), Value(<<"b">>)}
    /\ favorites_file = NoFile
    /\ interactive = None
    /\ cache = EmptyCache
    /\ call = Idle

NextAnimation ==
    \/ \E start \in {<<"a">>, <<"b">>, <<"z">>}, end \in {<<"a">>, <<"b">>, <<"z">>} :
           PresetSelector_animation_frames(start, end)
    \/ animation_frames_next
    \/ \E preset \in {<<"a">>, <<"b">>, <<"z">>} : Rainbowterm_animate_preset(preset)
    \/ Exit

SpecAnimation == InitAnimation /\ [][NextAnimation]_vars

(***************************************************************************)
(* The functions of calc on their own: each step applies one of them to    *)
(* arguments of the sets below.                                            *)
(***************************************************************************)
\* Longest list of items ranked.
MaxItems == 3

\* The items ranked and the values their keys take.
Items == {"a", "b", "c", "d"}

\* The keys of a, b and c take every value; the key of d is 1/2.
Keys == { key \in [Items -> { <<1, 10>>, Half, <<9, 10>> }] : key["d"] = Half }

\* The lists of up to MaxItems different items.
ItemLists ==
    { values \in UNION { [1..n -> Items] : n \in 0..MaxItems } :
        \A i \in DOMAIN values : \A j \in DOMAIN values : i # j => values[i] # values[j] }

\* The numbers mapped and the ends of the ranges.
Numbers == { <<-1, 1>>, Zero, <<1, 4>>, Half, One, <<2, 1>>, <<10, 1>> }

Ends == { Zero, Half, One, <<10, 1>> }

\* The arguments of closeness: 0, 1/10, ..., 1.
UnitNumbers == { Rat(k, 10) : k \in 0..10 }

\* normalized_ranks(values, key=key, reverse=reverse)
normalized_ranks_call(values, key, reverse) ==
    /\ call = Idle
    /\ call' = [op |-> "normalized_ranks", values |-> values, key |-> key,
                reverse |-> reverse, result |-> normalized_ranks(values, key, reverse)]
    /\ UNCHANGED <<presets, config, favorites_file, interactive, current_file, smart_history_file, cache>>

\* bimodal_normalized_ranks(values, middle, key=key, reverse=reverse)
bimodal_normalized_ranks_call(values, middle, key, reverse) ==
    /\ call = Idle
    /\ call' = [op |-> "bimodal_normalized_ranks", values |-> values,
                middle |-> middle, key |-> key, reverse |-> reverse,
                result |-> bimodal_normalized_ranks(values, middle, key, reverse)]
    /\ UNCHANGED <<presets, config, favorites_file, interactive, current_file, smart_history_file, cache>>

\* map_number(x, source, target)
map_number_call(x, source, target) ==
    /\ call = Idle
    /\ call' = [op |-> "map_number", x |-> x, source |-> source, target |-> target,
                result |-> IF map_number_raises(source) THEN Raised("ZeroDivisionError")
                           ELSE Value(map_number(x, source, target))]
    /\ UNCHANGED <<presets, config, favorites_file, interactive, current_file, smart_history_file, cache>>

\* closeness(x, y)
closeness_call(x, y) ==
    /\ call = Idle
    /\ call' = [op |-> "closeness", x |-> x, y |-> y, result |-> closeness(x, y)]
    /\ UNCHANGED <<presets, config, favorites_file, interactive, current_file, smart_history_file, cache>>

InitCalc ==
    /\ presets = <<>>
    /\ config = DefaultConfig
    /\ smart_history_file = NoFile
    /\ current_file = None
    /\ favorites_file = NoFile
    /\ interactive = None
    /\ cache = EmptyCache
    /\ call = Idle

NextCalc ==
    \/ \E values \in ItemLists, key \in Keys, reverse \in BOOLEAN :
           normalized_ranks_call(values, key, reverse)
    \/ \E values \in ItemLists, middle \in { Half, <<1, 10>> }, key \in Keys,
          reverse \in BOOLEAN :
           bimodal_normalized_ranks_call(values, middle, key, reverse)
    \/ \E x \in Numbers, source \in Ends \X Ends, target \in Ends \X Ends :
           map_number_call(x, source, target)
    \/ \E x \in UnitNumbers, y \in UnitNumbers : closeness_call(x, y)
    \/ Exit

SpecCalc == InitCalc /\ [][NextCalc]_vars

(***************************************************************************)
(* calc.normalized_solar_elevation.  Astral is outside the program: the    *)
(* model takes the three elevations it returns, in degrees, as inputs: the *)
(* highest of the day (at solar noon), the lowest (at solar midnight) and  *)
(* the one at date_time.                                                   *)
(***************************************************************************)
\* The function with the night mapped to the upper half as well.
normalized_solar_elevation_upper_half(highest, lowest, actual) ==
    IF RLt(Zero, actual)
    THEN IF map_number_raises(<<Zero, highest>>) THEN Raised("ZeroDivisionError")
         ELSE Value(map_number(actual, <<Zero, highest>>, <<Half, One>>))
    ELSE IF map_number_raises(<<lowest, Zero>>) THEN Raised("ZeroDivisionError")
         ELSE Value(map_number(actual, <<lowest, Zero>>, <<Half, One>>))

\* normalized_solar_elevation(latitude, longitude, date_time), from the
\* elevations on
normalized_solar_elevation(highest, lowest, actual) ==
    IF RLt(Zero, actual)
    THEN IF map_number_raises(<<Zero, highest>>) THEN Raised("ZeroDivisionError")
         ELSE Value(map_number(actual, <<Zero, highest>>, <<Half, One>>))
    ELSE IF map_number_raises(<<lowest, Zero>>) THEN Raised("ZeroDivisionError")
         ELSE Value(map_number(actual, <<lowest, Zero>>, <<Zero, Half>>))

\* Elevations in degrees.
Elevations == { <<d, 1>> : d \in {-90, -45, -20, -5, 0, 5, 20, 45, 90} }

\* The elevations of one day and one moment of it: the sun is never higher
\* than at solar noon nor lower than at solar midnight.
SolarDays ==
    { day \in [highest : Elevations, lowest : Elevations, actual : Elevations] :
        /\ RLt(day.lowest, day.highest)
        /\ RLe(day.lowest, day.actual)
        /\ RLe(day.actual, day.highest) }

\* normalized_solar_elevation(latitude, longitude, date_time)
normalized_solar_elevation_call(day) ==
    /\ call = Idle
    /\ call' = [op |-> "normalized_solar_elevation", highest |-> day.highest,
                lowest |-> day.lowest, actual |-> day.actual,
                result |-> normalized_solar_elevation(day.highest, day.lowest, day.actual)]
    /\ UNCHANGED <<presets, config, favorites_file, interactive, current_file, smart_history_file, cache>>

NextSolar ==
    \/ \E day \in SolarDays : normalized_solar_elevation_call(day)
    \/ Exit

SpecSolar == InitCalc /\ [][NextSolar]_vars

(***************************************************************************)
(* files: the typed accessors of Config.  Here config is the ConfigParser: *)
(* a function from section names to functions from keys to values.  A      *)
(* value is a str of single characters over the digits 0, 1 and 5, the     *)
(* signs, the point, the underscore, the space and the letters of "true"   *)
(* and "false" in either case: no "%", so ConfigParser interpolates        *)
(* nothing, and no "inf" or "nan".                                         *)
(***************************************************************************)
\* Longest run of digits parsed.
MaxDigits == 3

DigitValue == ("0" :> 0) @@ ("1" :> 1) @@ ("5" :> 5)

\* str.lower() on the letters of the values
Lower(string) ==
    LET lower == ("T" :> "t") @@ ("R" :> "r") @@ ("U" :> "u") @@ ("E" :> "e")
                 @@ ("F" :> "f") @@ ("A" :> "a") @@ ("L" :> "l") @@ ("S" :> "s")
    IN  [i \in DOMAIN string |->
            IF string[i] \in DOMAIN lower THEN lower[string[i]] ELSE string[i]]

\* A run of digits in which single underscores may stand between digits.
IsDigits(string) ==
    /\ string # <<>>
    /\ Len(SelectSeq(string, LAMBDA c : c # "_")) <= MaxDigits
    /\ \A i \in DOMAIN string :
           \/ string[i] \in DOMAIN DigitValue
           \/ /\ string[i] = "_"
              /\ 1 < i /\ i < Len(string)
              /\ string[i - 1] # "_" /\ string[i + 1] # "_"

\* The number a run of digits stands for.
RECURSIVE DigitsValue(_)
DigitsValue(string) ==
    IF string = <<>> THEN 0
    ELSE LET last == string[Len(string)]
             rest == SubSeq(string, 1, Len(string) - 1)
         IN  IF last = "_" THEN DigitsValue(rest)
             ELSE 10 * DigitsValue(rest) + DigitValue[last]

RECURSIVE Power10(_)
Power10(n) == IF n = 0 THEN 1 ELSE 10 * Power10(n - 1)

\* The position of the first c in string, or 0.
Find(string, c) ==
    IF \E i \in DOMAIN string : string[i] = c
    THEN CHOOSE i \in DOMAIN string : string[i] = c /\ \A j \in 1..(i - 1) : string[j] # c
    ELSE 0

\* A str without its sign, and the sign
Unsigned(string) ==
    IF string # <<>> /\ Head(string) \in {"+", "-"} THEN Tail(string) ELSE string

Sign(string) == IF string # <<>> /\ Head(string) = "-" THEN -1 ELSE 1

\* int(string): blanks around the number are dropped, then a sign and a run
\* of digits; ValueError otherwise
parse_int(string) ==
    LET body == Unsigned(Strip(string))
    IN  IF IsDigits(body) THEN Value(Sign(Strip(string)) * DigitsValue(body))
        ELSE Raised("ValueError")

\* The mantissa of a float: digits, digits.digits, digits. or .digits
Mantissa(string) ==
    LET point == Find(string, ".")
        whole == IF point = 0 THEN string ELSE SubSeq(string, 1, point - 1)
        fraction == IF point = 0 THEN <<>> ELSE SubSeq(string, point + 1, Len(string))
        places == Len(SelectSeq(fraction, LAMBDA c : c # "_"))
    IN  IF /\ whole # <<>> \/ fraction # <<>>
           /\ whole = <<>> \/ IsDigits(whole)
           /\ fraction = <<>> \/ IsDigits(fraction)
        THEN Value(Rat(DigitsValue(whole) * Power10(places) + DigitsValue(fraction),
                       Power10(places)))
        ELSE Raised("ValueError")

\* float(string): a sign, a mantissa and, after e or E, a signed exponent
parse_float(string) ==
    LET stripped == Lower(Strip(string))
        body == Unsigned(stripped)
        e == Find(body, "e")
        mantissa == Mantissa(IF e = 0 THEN body ELSE SubSeq(body, 1, e - 1))
        exponent == IF e = 0 THEN <<>> ELSE SubSeq(body, e + 1, Len(body))
        scale == IF e = 0 THEN One
                 ELSE IF Sign(exponent) = 1
                      THEN <<Power10(DigitsValue(Unsigned(exponent))), 1>>
                      ELSE <<1, Power10(DigitsValue(Unsigned(exponent)))>>
    IN  IF mantissa.kind # "value" THEN mantissa
        ELSE IF e # 0 /\ ~IsDigits(Unsigned(exponent)) THEN Raised("ValueError")
        ELSE Value(RMul(<<Sign(stripped), 1>>, RMul(mantissa.v, scale)))

\* The parse function of Config.bool
parse_bool(string) ==
    IF Lower(string) = <<"t", "r", "u", "e">> THEN Value(TRUE)
    ELSE IF Lower(string) = <<"f", "a", "l", "s", "e">> THEN Value(FALSE)
    ELSE Raised("ValueError")

\* getattr(operator, cmp)(value, x) on numbers given as rationals
Compare(cmp, value, x) ==
    CASE cmp = "lt" -> RLt(value, x)
      [] cmp = "le" -> RLe(value, x)
      [] cmp = "gt" -> RLt(x, value)
      [] cmp = "ge" -> RLe(x, value)
      [] cmp = "eq" -> value = x
      [] cmp = "ne" -> value # x

\* Config.get(section, key): self.parser[section][key] raises KeyError for
\* a section or a key that is not there, and KeyError is no
\* configparser.Error.
Config_get(parser, section, key) ==
    IF section \notin DOMAIN parser \/ key \notin DOMAIN parser[section]
    THEN Raised("KeyError")
    ELSE Value(parser[section][key])

\* Config.value(parse, section, key, **kwargs), parsed being parse(string)
\* and number the parsed value as a rational
Config_value(string, parsed, number, section, key, kwargs) ==
    IF string.kind # "value" THEN string
    ELSE IF \/ parsed.kind # "value"
            \/ \E i \in DOMAIN kwargs : ~Compare(kwargs[i][1], number, kwargs[i][2])
         THEN FatalError(string.v \o <<": invalid ", section, ".", key, " config">>)
         ELSE parsed

\* Config.bool(section, key)
Config_bool(parser, section, key) ==
    LET string == Config_get(parser, section, key)
        parsed == IF string.kind = "value" THEN parse_bool(string.v) ELSE string
    IN  Config_value(string, parsed, Zero, section, key, <<>>)

\* Config.int(section, key, **kwargs)
Config_int(parser, section, key, kwargs) ==
    LET string == Config_get(parser, section, key)
        parsed == IF string.kind = "value" THEN parse_int(string.v) ELSE string
        number == IF parsed.kind = "value" THEN <<parsed.v, 1>> ELSE Zero
    IN  Config_value(string, parsed, number, section, key, kwargs)

\* Config.float(section, key, **kwargs)
Config_float(parser, section, key, kwargs) ==
    LET string == Config_get(parser, section, key)
        parsed == IF string.kind = "value" THEN parse_float(string.v) ELSE string
        number == IF parsed.kind = "value" THEN parsed.v ELSE Zero
    IN  Config_value(string, parsed, number, section, key, kwargs)

\* The values of foo.v.
ConfigStrings ==
    { <<"1", "0", "0">>, <<"1">>, <<"0">>, <<"-", "1">>, <<"+", "5">>, <<"1", "_", "0">>,
      <<"1", ".", "5">>, <<".", "5">>, <<"5", ".">>, <<"1", "e", "1">>, <<"5", "E", "-", "1">>,
      <<>>, <<"-">>, <<".">>, <<"1", " ", "0">>, <<"_", "1">>, <<"1", "e">>,
      <<"t", "r", "u", "e">>, <<"T", "r", "U", "e">>, <<"f", "a", "l", "s", "e">>,
      <<"F", "A", "L", "S", "E">>, <<"t", "r", "u", "e", "s">>, <<"t">> }

\* The parsers: the default animation.frames of 100 and a section foo with
\* one key v.
ConfigParsers ==
    { ("animation" :> ("frames" :> <<"1", "0", "0">>)) @@ ("foo" :> ("v" :> string)) :
        string \in ConfigStrings }

\* The keyword arguments of the calls.
ConfigKwargs ==
    { <<>>, << <<"gt", Zero>> >>, << <<"ge", Zero>>, <<"le", One>> >>,
      << <<"ne", <<100, 1>> >> >>, << <<"gt", <<99, 1>> >>, <<"lt", <<101, 1>> >> >> }

\* One call of an accessor.
Config_call(accessor, section, key, kwargs) ==
    /\ call = Idle
    /\ call' = [op |-> accessor, section |-> section, key |-> key, kwargs |-> kwargs,
                result |-> CASE accessor = "Config.get" -> Config_get(config, section, key)
                             [] accessor = "Config.bool" -> Config_bool(config, section, key)
                             [] accessor = "Config.int" ->
                                    Config_int(config, section, key, kwargs)
                             [] accessor = "Config.float" ->
                                    Config_float(config, section, key, kwargs)]
    /\ UNCHANGED <<presets, config, favorites_file, interactive, current_file, smart_history_file, cache>>

InitConfig ==
    /\ presets = <<>>
    /\ config \in ConfigParsers
    /\ smart_history_file = NoFile
    /\ current_file = None
    /\ favorites_file = NoFile
    /\ interactive = None
    /\ cache = EmptyCache
    /\ call = Idle

NextConfig ==
    \/ \E accessor \in {"Config.get", "Config.bool"},
          section \in {"animation", "foo", "bar"}, key \in {"frames", "v"} :
           Config_call(accessor, section, key, <<>>)
    \/ \E accessor \in {"Config.int", "Config.float"},
          section \in {"animation", "foo", "bar"}, key \in {"frames", "v"},
          kwargs \in ConfigKwargs :
           Config_call(accessor, section, key, kwargs)
    \/ Exit

SpecConfig == InitConfig /\ [][NextConfig]_vars

(***************************************************************************)
(* Interactive mode: class Interactive, run on a Rainbowterm object.  The  *)
(* variable interactive holds the object (preset_list, the 0-based index)  *)
(* together with the favorites cached by the Rainbowterm object it uses;   *)
(* current_file holds the preset last applied by set_preset.  The class    *)
(* in interactive.py has the same statements but cannot be constructed:    *)
(* main.py hands its constructor two arguments.                            *)
(***************************************************************************)
MaxPresets == 3

\* The names of the presets of interactive mode, in the order of the file.
InteractivePool == << <<"a", "light">>, <<"b">>, <<"a", "dark">>, <<"c">> >>

\* The preset collections: the first n names of the pool.
InteractivePresetLists ==
    { [i \in 1..n |-> Preset(InteractivePool[i], Medium)] : n \in 1..MaxPresets }

\* list.index(x), counted from 0; ValueError when x is not in the list
Index(list, x) ==
    IF x \notin Range(list) THEN Raised("ValueError")
    ELSE Value((CHOOSE i \in DOMAIN list : list[i] = x /\ \A j \in 1..(i - 1) : list[j] # x) - 1)

\* The outcomes of random.shuffle(list): the orders of its items.
Shuffles(list) ==
    { p \in [DOMAIN list -> Range(list)] : \A i \in DOMAIN list : \A j \in DOMAIN list :
                                                p[i] = p[j] => i = j }

\* Rainbowterm.favorites (reader): the set read, or the failure
Rainbowterm_favorites(file, names) ==
    IF ~file.exists THEN fail("favorites not found")
    ELSE LET favorites == Range(Split(read_file(file)))
         IN  IF favorites = {} THEN fail("favorites are empty")
             ELSE IF favorites \ names # {} THEN fail("invalid preset in favorites")
             ELSE Value(favorites)

\* Interactive.__init__ followed by the first print_status of run, which
\* reads rainbow.current and rainbow.favorites: the object, or the failure
Interactive_init(ps, current, file) ==
    IF ps = <<>> THEN fail("presets are empty")
    ELSE IF current = None THEN fail("current preset unknown")
    ELSE IF Index(Names(ps), current.v).kind # "value" THEN Index(Names(ps), current.v)
    ELSE IF Rainbowterm_favorites(file, Range(Names(ps))).kind # "value"
         THEN Rainbowterm_favorites(file, Range(Names(ps)))
    ELSE Value([kind |-> "Interactive",
                preset_list |-> Names(ps),
                index |-> Index(Names(ps), current.v).v,
                favorites |-> Rainbowterm_favorites(file, Range(Names(ps))).v])

\* Interactive.current (getter)
Interactive_current(self) == self.preset_list[self.index + 1]

\* Interactive.next
Interactive_next(self) ==
    [self EXCEPT !.index = (self.index + 1) % Len(self.preset_list)]

\* Interactive.prev
Interactive_prev(self) ==
    [self EXCEPT !.index = (self.index - 1) % Len(self.preset_list)]

\* Interactive_while_not_favorite leaving the cursor where the first step
\* put it.
Interactive_while_not_favorite_skipped(self, forward, steps) ==
    [self |-> self, steps |-> steps, halts |-> TRUE]

\* while self.current not in rainbow.favorites: self.next() (or self.prev()),
\* after steps calls of next or prev.  Once the cursor has been on every
\* preset without meeting a favorite the loop goes on for ever.
RECURSIVE Interactive_while_not_favorite(_, _, _)
Interactive_while_not_favorite(self, forward, steps) ==
    IF Interactive_current(self) \in self.favorites
    THEN [self |-> self, steps |-> steps, halts |-> TRUE]
    ELSE IF steps > Len(self.preset_list)
    THEN [self |-> self, steps |-> steps, halts |-> FALSE]
    ELSE Interactive_while_not_favorite(
             IF forward THEN Interactive_next(self) ELSE Interactive_prev(self),
             forward, steps + 1)

\* What dispatch returns and does: the object after it, the value returned,
\* the info message, the calls of next and prev made, whether it returns at
\* all, and the failure that ends the process.
Dispatched(self, changed, info, steps) ==
    [self |-> self, changed |-> changed, info |-> info, steps |-> steps,
     halts |-> TRUE, result |-> None]

\* Interactive.dispatch(char); fzf is the output of the fzf process and
\* shuffled the order random.shuffle leaves
Interactive_dispatch(self, char, fzf, shuffled) ==
    CASE char \in {"j", " ", "\n"} -> Dispatched(Interactive_next(self), TRUE, "", 1)
      [] char = "k" -> Dispatched(Interactive_prev(self), TRUE, "", 1)
      [] char \in {"J", "K"} ->
             IF self.favorites = {} THEN Dispatched(self, FALSE, "no favorites", 0)
             ELSE LET first == IF char = "J" THEN Interactive_next(self)
                               ELSE Interactive_prev(self)
                      walk == Interactive_while_not_favorite(first, char = "J", 1)
                  IN  [Dispatched(walk.self, TRUE, "", walk.steps)
                           EXCEPT !.halts = walk.halts]
      [] char = "s" -> Dispatched([self EXCEPT !.preset_list = shuffled], TRUE, "shuffled", 0)
      [] char = "p" ->
             IF fzf.kind # "value"
             THEN [Dispatched(self, FALSE, "", 0) EXCEPT !.result = fzf]
             ELSE IF Index(self.preset_list, fzf.v).kind # "value"
             THEN Dispatched(self, FALSE, "invalid selection", 0)
             ELSE Dispatched([self EXCEPT !.index = Index(self.preset_list, fzf.v).v],
                             TRUE, "", 0)
      [] char = "l" ->
             LET other == light_dark_alternate(Range(self.preset_list),
                                               Interactive_current(self))
             IN  IF other = None \/ other.v = <<>>
                 THEN Dispatched(self, FALSE, "no light/dark version", 0)
                 ELSE Dispatched([self EXCEPT !.index = Index(self.preset_list, other.v).v],
                                 TRUE, "", 0)
      [] char = "f" ->
             IF Interactive_current(self) \in self.favorites
             THEN Dispatched([self EXCEPT !.favorites = @ \ {Interactive_current(self)}],
                             FALSE, "unfavorited", 0)
             ELSE Dispatched([self EXCEPT !.favorites = @ \cup {Interactive_current(self)}],
                             FALSE, "favorited", 0)
      [] OTHER -> Dispatched(self, FALSE, "", 0)

\* Interactive_run_set_preset never applying the preset.
Interactive_run_set_preset_never(changed, self, applied) == applied

\* if changed: self.rainbow.set_preset(self.current): the preset applied
\* after the key
Interactive_run_set_preset(changed, self, applied) ==
    IF changed THEN Value(Interactive_current(self)) ELSE applied

\* Rainbowterm.command_interactive up to the first read_char
command_interactive ==
    /\ call = Idle
    /\ interactive = None
    /\ \E made \in {Interactive_init(presets, current_file, favorites_file)} :
           /\ interactive' = IF made.kind = "value" THEN made.v ELSE None
           /\ call' = [op |-> "Interactive.__init__", result |-> made]
    /\ UNCHANGED <<presets, config, smart_history_file, current_file, favorites_file, cache>>

\* One turn of the loop of Interactive.run for a char other than q and Q.
\* A dispatch that exits ends the process; one that does not return leaves
\* it in the loop of dispatch.
Interactive_run(char, fzf, shuffled) ==
    /\ interactive # None
    /\ interactive.kind = "Interactive"
    /\ \E did \in {Interactive_dispatch(interactive, char, fzf, shuffled)} :
           /\ interactive' = IF did.result # None THEN None
                             ELSE IF ~did.halts THEN [kind |-> "dispatch"]
                             ELSE did.self
           /\ current_file' = IF did.result # None \/ ~did.halts THEN current_file
                              ELSE Interactive_run_set_preset(did.changed, did.self,
                                                              current_file)
           /\ favorites_file' = IF did.self.favorites = interactive.favorites
                                THEN favorites_file
                                ELSE FileStore_set_favorites(did.self.favorites)
           /\ call' = [op |-> "Interactive.dispatch", char |-> char,
                       changed |-> did.changed, info |-> did.info,
                       steps |-> did.steps, halts |-> did.halts,
                       result |-> did.result]
    /\ UNCHANGED <<presets, config, smart_history_file, cache>>

\* q, Q or a KeyboardInterrupt: the loop breaks and the process ends.
Interactive_quit ==
    /\ interactive # None
    /\ interactive.kind = "Interactive"
    /\ interactive' = None
    /\ call' = Idle
    /\ UNCHANGED <<presets, config, smart_history_file, current_file, favorites_file, cache>>

\* The characters typed: one per branch of dispatch, and one it does not know.
Chars == {"j", "k", "J", "K", "s", "p", "l", "f", "i", "x"}

\* What fzf prints: a preset picked, nothing, or fzf is not installed.
FzfOutputs(list) ==
    { Value(name) : name \in Range(list) \cup {<<>>} } \cup { fail("fzf not installed") }

InitInteractive ==
    /\ presets \in InteractivePresetLists
    /\ config = DefaultConfig
    /\ smart_history_file = NoFile
    /\ current_file \in {None, Value(InteractivePool[1]), Value(InteractivePool[2])}
    /\ favorites_file \in
           {NoFile, write_file(<<>>)}
               \cup { FileStore_set_favorites(favorites) :
                        favorites \in SUBSET {InteractivePool[1], InteractivePool[2]} \ {{}} }
    /\ interactive = None
    /\ cache = EmptyCache
    /\ call = Idle

NextInteractive ==
    \/ command_interactive
    \/ \E char \in Chars \ {"p", "s"} :
           Interactive_run(char, None, <<>>)
    \/ \E fzf \in FzfOutputs(Names(presets)) :
           Interactive_run("p", fzf, <<>>)
    \/ \E shuffled \in Shuffles(Names(presets)) : Interactive_run("s", None, shuffled)
    \/ Interactive_quit
    \/ interactive = None /\ Exit

SpecInteractive == InitInteractive /\ [][NextInteractive]_vars

(***************************************************************************)
(* Properties of smart_choice and smart_scores, checked under Spec.  Each  *)
(* is stated on call, the record of the operation that ran last.           *)
(***************************************************************************)
SmartChoiceOps == {"PresetSelector.smart_choice", "Rainbowterm.smart_choice"}

\* name is among the last n entries of history
InLastN(name, history, n) ==
    \E k \in DOMAIN history : k > Len(history) - n /\ history[k] = name

\* The call is a smart_choice that got past its checks: the configuration is
\* valid and there is a candidate.
HasCandidates ==
    /\ call.op \in SmartChoiceOps
    /\ call.stage \notin {"presets", "config", "options"}

\* Both signals of the call were obtained (the display's may be None).
SignalsAvailable ==
    /\ call.sun.kind = "value"
    /\ call.display.kind \in {"value", "None"}

\* Neither axis has a degenerate source range.
RangesProper ==
    /\ config.sun_min # config.sun_max
    /\ config.display_min # config.display_max

\* C1: with consider_repetition true and avoid_repeat = N in 0..100, the
\* candidates of smart_choice are exactly the presets whose names are not
\* among the last N entries of the history (N = 0 excludes nothing, older
\* entries exclude nothing), and a returned preset is one of the candidates.
C1_CandidatesExcludeRecent ==
    (/\ call.op \in SmartChoiceOps
     /\ call.consider_repetition
     /\ call.avoid_repeat \in 0..MAX_SMART_HISTORY)
    => /\ \A i \in DOMAIN call.names :
              (call.names[i] \in Range(call.options))
                  <=> ~InLastN(call.names[i], call.history, call.avoid_repeat)
       /\ Range(call.options) \subseteq Range(call.names)
       /\ call.result.kind = "value" => call.result.v \in Range(call.options)

\* A selection with avoid_repeat = 1 on a history of two presets returns the
\* older one: the newer one is excluded, the older one is not.
C1_Witness ==
    /\ call.op \in SmartChoiceOps
    /\ call.consider_repetition
    /\ call.avoid_repeat = 1
    /\ Len(call.history) = 2
    /\ call.history[1] # call.history[2]
    /\ call.history[2] \in Range(call.names)
    /\ call.history[2] \notin Range(call.options)
    /\ call.result = Value(call.history[1])

\* Every candidate of the call is excluded by the history.
ExcludedAll ==
    /\ call.names # <<>>
    /\ call.avoid_repeat \in 1..MAX_SMART_HISTORY
    /\ \A i \in DOMAIN call.names :
           InLastN(call.names[i], call.history, call.avoid_repeat)

\* C2: smart_choice ends in the fatal error that no selection is possible,
\* and returns no preset, when there are no presets or when the anti-repeat
\* exclusion removes every candidate.
C2_SelectionImpossible ==
    /\ (call.op = "PresetSelector.smart_choice" /\ call.names = <<>>)
           => call.result = FatalError("no color presets to choose from")
    /\ (call.op = "PresetSelector.smart_choice" /\ ExcludedAll)
           => call.result = FatalError("cannot satisfy smart.avoid_repeat config")
    /\ (call.op = "Rainbowterm.smart_choice" /\ ExcludedAll)
           => call.result = fail("cannot satisfy smart.avoid_repeat config")

\* PresetSelector.smart_choice failed because the history excludes every
\* one of its presets.
C2_Witness ==
    /\ call.op = "PresetSelector.smart_choice"
    /\ ExcludedAll
    /\ call.result.kind = "FatalError"

\* C3: every successful smart_choice, with consider_repetition true or
\* false, hands the store the history it read before, followed by the name
\* of the chosen preset: the history read back afterwards is that list (cut
\* to its last MAX_SMART_HISTORY entries), one entry longer than before.
C3_AppendsChoice ==
    [][(call'.op \in SmartChoiceOps /\ call'.result.kind = "value")
       => LET old == FileStore_smart_history(smart_history_file)
              new == FileStore_smart_history(smart_history_file')
          IN  /\ call'.history = old
              /\ call'.written = old \o <<call'.result.v>>
              /\ new = LastN(old \o <<call'.result.v>>, MAX_SMART_HISTORY)
              /\ Len(old) < MAX_SMART_HISTORY => Len(new) = Len(old) + 1]_vars

\* A selection that does not consider repetition has appended its choice to
\* a history that was not empty.
C3_Witness ==
    /\ call.op \in SmartChoiceOps
    /\ ~call.consider_repetition
    /\ call.result.kind = "value"
    /\ call.history # <<>>
    /\ FileStore_smart_history(smart_history_file) = call.history \o <<call.result.v>>

\* The candidates of the call have brightness values at most that of b.
Brightest(b) ==
    \A p \in Range(call.options) :
        RLe(brightness(presets)[p], brightness(presets)[b])

\* C5: smart_choice returns a candidate whose total score (sun term plus
\* display term plus random term) is maximal among the candidates.
C5_ReturnsMaximalTotal ==
    (HasCandidates /\ SignalsAvailable /\ RangesProper)
    => /\ call.result.kind = "value"
       /\ call.result.v \in Range(call.options)
       /\ \A p \in Range(call.options) :
              RLe(total(call.scores.scores[p]), total(call.scores.scores[call.result.v]))

\* C6: when several candidates share the maximal total (here: every weight
\* is 0, so every total is 0), smart_choice returns the first candidate in
\* iteration order, the same in every run on the same inputs.
C6_FirstOfTies ==
    (/\ HasCandidates /\ SignalsAvailable /\ RangesProper
     /\ config.sun_weight = Zero
     /\ config.display_weight = Zero
     /\ config.random_weight = Zero)
    => call.result = Value(call.options[1])

\* C7: with a positive sun weight, display and random weight 0 and an ideal
\* sun rank of 1 (sun value 1, offset 0, range 0..1), smart_choice returns a
\* candidate of maximal brightness, with bimodal and with uniform ranking.
C7_BrightestAtNoon ==
    (/\ HasCandidates /\ SignalsAvailable /\ RangesProper
     /\ RLt(Zero, config.sun_weight)
     /\ config.display_weight = Zero
     /\ config.random_weight = Zero
     /\ call.sun = Value(One)
     /\ config.sun_offset = Zero /\ config.sun_min = Zero /\ config.sun_max = One)
    => /\ call.result.kind = "value"
       /\ Brightest(call.result.v)

\* The call ran smart_scores on a list of presets: directly, or from a
\* smart_choice that got as far as scoring its candidates.
RanSmartScores ==
    \/ call.op = "PresetSelector.smart_scores"
    \/ HasCandidates

\* The scores the call computed, whichever operation it was.
ScoresOfCall ==
    IF call.op = "Rainbowterm.smart_choice" THEN call.scores ELSE call.result

\* C8: when the screen brightness is None (and the sun value is there),
\* smart_scores does not fail: the ideal display rank is None and the
\* display term is 0 for every preset, the other terms being computed.
C8_AbsentSignalScoresZero ==
    (/\ RanSmartScores /\ RangesProper
     /\ call.sun.kind = "value"
     /\ call.display = None)
    => /\ ScoresOfCall.kind = "ok"
       /\ ScoresOfCall.ideal_display_rank = None
       /\ ScoresOfCall.ideal_sun_rank.kind = "value"
       /\ \A p \in Range(call.options) : ScoresOfCall.scores[p].display = Zero

\* What the call passed to smart_scores: names or Preset objects.
ItemTypeOfCall ==
    IF call.op = "PresetSelector.smart_scores" THEN "Preset" ELSE "str"

\* C9: for a sun value v that is present and the axis configuration (offset,
\* min, max), min # max, the ideal sun rank smart_scores computes is
\* map_number(clamp(v + offset, (0, 1)), (min, max), (0, 1)), a number in
\* 0..1.  Stated for the calls of PresetSelector.smart_scores that get as far
\* as computing it.
C9_IdealRank ==
    (/\ call.op \in {"PresetSelector.smart_scores", "PresetSelector.smart_choice"}
     /\ RanSmartScores /\ RangesProper
     /\ PresetSelector_ranks_raise(ItemTypeOfCall, call.options, config) = None
     /\ call.sun.kind = "value"
     /\ call.display = None)
    => /\ call.result.kind = "ok"
       /\ call.result.ideal_sun_rank =
              Value(map_number(clamp(RAdd(call.sun.v, config.sun_offset), <<Zero, One>>),
                               <<config.sun_min, config.sun_max>>, <<Zero, One>>))
       /\ RLe(Zero, call.result.ideal_sun_rank.v)
       /\ RLe(call.result.ideal_sun_rank.v, One)

(***************************************************************************)
(* Properties of the store, checked under SpecStore.                       *)
(***************************************************************************)
StoreSetterOps == {"FileStore.smart_history.setter", "Rainbowterm.smart_history.setter"}

\* C4: after a write to the smart history, the persisted history (what the
\* getter reads from the file) has at most MAX_SMART_HISTORY entries and is
\* the last MAX_SMART_HISTORY entries of the list written, in their order.
C4_PersistedIsLastWritten ==
    call.op \in StoreSetterOps
    => LET persisted == FileStore_smart_history(smart_history_file)
       IN  /\ Len(persisted) <= MAX_SMART_HISTORY
           /\ persisted = LastN(call.written, MAX_SMART_HISTORY)

(***************************************************************************)
(* Properties of the light/dark lookup, checked under SpecLD.              *)
(***************************************************************************)
LightDarkOps == {"PresetSelector.light_dark_alternate", "Rainbowterm.light_dark"}

\* The candidates for a name, in the order of the claim: the label pair
\* (light, dark), then (dark, light); within a pair the source label bare,
\* then with a hyphen; within that the target label bare, then with a
\* hyphen; within that the source label removed, then replaced.
CandidatesOf(name) ==
    << Replace(name, <<"light">>, <<>>),       Replace(name, <<"light">>, <<"dark">>),
       Replace(name, <<"light">>, <<>>),       Replace(name, <<"light">>, <<"-", "dark">>),
       Replace(name, <<"-", "light">>, <<>>),  Replace(name, <<"-", "light">>, <<"dark">>),
       Replace(name, <<"-", "light">>, <<>>),  Replace(name, <<"-", "light">>, <<"-", "dark">>),
       Replace(name, <<"dark">>, <<>>),        Replace(name, <<"dark">>, <<"light">>),
       Replace(name, <<"dark">>, <<>>),        Replace(name, <<"dark">>, <<"-", "light">>),
       Replace(name, <<"-", "dark">>, <<>>),   Replace(name, <<"-", "dark">>, <<"light">>),
       Replace(name, <<"-", "dark">>, <<>>),   Replace(name, <<"-", "dark">>, <<"-", "light">>) >>

\* The positions of the candidates that differ from the name and are presets.
Matches(name) ==
    { n \in DOMAIN CandidatesOf(name) :
        /\ CandidatesOf(name)[n] # name
        /\ CandidatesOf(name)[n] \in Range(Names(presets)) }

\* C10: light_dark_alternate(name) returns the first candidate, in the fixed
\* nested order, that differs from name and is in the preset set (None when
\* there is none): a later candidate that is also in the set is never
\* returned in place of an earlier one.
C10_FirstCandidateWins ==
    call.op \in LightDarkOps
    => IF Matches(call.preset_name) = {}
       THEN call.result = None
       ELSE \E n \in Matches(call.preset_name) :
                /\ \A m \in Matches(call.preset_name) : n <= m
                /\ call.result = Value(CandidatesOf(call.preset_name)[n])

\* Two different candidates are presets, and the lookup returned the earlier.
C10_Witness ==
    /\ call.op \in LightDarkOps
    /\ \E n \in Matches(call.preset_name) : \E m \in Matches(call.preset_name) :
           /\ n < m
           /\ CandidatesOf(call.preset_name)[n] # CandidatesOf(call.preset_name)[m]
           /\ call.result = Value(CandidatesOf(call.preset_name)[n])

\* The name is X-light for an X without the labels light and dark.
IsXLight(name) ==
    /\ Len(name) >= 2
    /\ SubSeq(name, Len(name) - 1, Len(name)) = <<"-", "light">>
    /\ \A k \in 1..(Len(name) - 2) : name[k] \notin {"light", "dark"}

\* The X of a name X-light.
StemOf(name) == SubSeq(name, 1, Len(name) - 2)

\* C11 as stated: for a name in the preset set, light_dark_alternate returns
\* None or a preset other than the name; for X-light it returns X-dark when
\* that is a preset, X when X is a preset and X-dark is not, and None when
\* no candidate is a preset.
C11_AlternateOfLight_AsStated ==
    call.op \in LightDarkOps
    => LET name == call.preset_name
           names == Range(Names(presets))
           X == StemOf(name)
       IN  /\ \/ call.result = None
              \/ /\ call.result.kind = "value"
                 /\ call.result.v \in names
                 /\ call.result.v # name
           /\ Matches(name) = {} => call.result = None
           /\ IsXLight(name) =>
                  /\ (X \o <<"-", "dark">>) \in names
                         => call.result = Value(X \o <<"-", "dark">>)
                  /\ (X \in names /\ (X \o <<"-", "dark">>) \notin names)
                         => call.result = Value(X)

\* C11, amended: as above, but X-light gives X-dark only when X- (the name
\* with the bare label removed, an earlier candidate) is not a preset, and
\* gives X only when none of the earlier candidates X-, X-dark and X--dark
\* is a preset.
C11_AlternateOfLight ==
    call.op \in LightDarkOps
    => LET name == call.preset_name
           names == Range(Names(presets))
           X == StemOf(name)
       IN  /\ \/ call.result = None
              \/ /\ call.result.kind = "value"
                 /\ call.result.v \in names
                 /\ call.result.v # name
           /\ Matches(name) = {} => call.result = None
           /\ IsXLight(name) =>
                  /\ ((X \o <<"-", "dark">>) \in names /\ (X \o <<"-">>) \notin names)
                         => call.result = Value(X \o <<"-", "dark">>)
                  /\ (/\ X \in names
                      /\ (X \o <<"-">>) \notin names
                      /\ (X \o <<"-", "dark">>) \notin names
                      /\ (X \o <<"-", "-", "dark">>) \notin names)
                         => call.result = Value(X)

\* The lookup for a-light returned a, the pool having a but not a-dark.
C11_Witness ==
    /\ call.op \in LightDarkOps
    /\ call.preset_name = <<"a", "-", "light">>
    /\ <<"a", "-", "dark">> \notin Range(Names(presets))
    /\ call.result = Value(<<"a">>)

(***************************************************************************)
(* Properties of the color functions, checked under SpecColors.            *)
(***************************************************************************)
\* The roles both inputs of the interpolation have.
SharedRoles == DOMAIN call.self \cap DOMAIN call.other

\* C14: the roles of self.interpolate(other, t) are exactly the roles that
\* self and other both have, for every t for which there is a result (there
\* is one for every t within 0..1): a role of only one input is absent from
\* the result and no role is invented.
C14_RolesAreShared ==
    call.op = "Colors.interpolate"
    => /\ call.result.kind = "value" => DOMAIN call.result.v = SharedRoles
       /\ (RLe(Zero, call.t) /\ RLe(call.t, One)) => call.result.kind = "value"

\* An interpolation between two values that each have a role the other
\* lacks, at a t strictly between 0 and 1.
C14_Witness ==
    /\ call.op = "Colors.interpolate"
    /\ call.t = <<1, 3>>
    /\ "Bold Color" \in DOMAIN call.self
    /\ "Link Color" \in DOMAIN call.other
    /\ call.result.kind = "value"
    /\ DOMAIN call.result.v = {FG, BG}

\* C15: self.interpolate(other, 0) is self restricted to the shared roles
\* and self.interpolate(other, 1) is other restricted to the shared roles;
\* and BitColor.from_linear(c.to_linear()) = c for the channel values
\* 0..255.
C15_EndsAreInputs ==
    /\ (call.op = "Colors.interpolate" /\ call.t = Zero)
           => call.result = Value([name \in SharedRoles |-> call.self[name]])
    /\ (call.op = "Colors.interpolate" /\ call.t = One)
           => call.result = Value([name \in SharedRoles |-> call.other[name]])
    /\ call.op = "BitColor.from_linear" => call.result = call.color

\* An interpolation at t = 1 between values whose foregrounds differ in
\* every channel, neither black nor white, gave the foreground of other.
C15_Witness ==
    /\ call.op = "Colors.interpolate"
    /\ call.t = One
    /\ call.self[FG] = [r |-> 10, g |-> 11, b |-> 128]
    /\ call.other[FG] = [r |-> 253, g |-> 246, b |-> 227]
    /\ call.result.kind = "value"
    /\ call.result.v[FG] = call.other[FG]

\* C20: colors.contrast_ratio() lies within 0..1, is the same with
\* foreground and background exchanged, is 0 when foreground and background
\* are the same color, and is 1 for black on white and for white on black.
C20_ContrastRatio ==
    call.op = "Colors.contrast_ratio"
    => LET fg == call.colors[FG]
           bg == call.colors[BG]
           swapped == [role \in DOMAIN call.colors |->
                          IF role = FG THEN bg ELSE IF role = BG THEN fg
                          ELSE call.colors[role]]
       IN  /\ RLe(Zero, call.result) /\ RLe(call.result, One)
           /\ call.result = Colors_contrast_ratio(swapped)
           /\ fg = bg => call.result = Zero
           /\ {fg, bg} = {BLACK, WHITE} => call.result = One

\* The contrast ratio of black on white is 1.
C20_Witness ==
    /\ call.op = "Colors.contrast_ratio"
    /\ call.colors[FG] = BLACK
    /\ call.colors[BG] = WHITE
    /\ call.result = One

(***************************************************************************)
(* Properties of the animation, checked under SpecAnimation.               *)
(***************************************************************************)
\* The preset of a name that is a preset.
PresetNamed(name) == presets[CHOOSE k \in DOMAIN presets : presets[k].name = name]

\* Both names given to the animation are presets.
AnimatesPresets == {call.start, call.end} \subseteq Range(Names(presets))

\* C12: with frames = F > 0 the generator animation_frames(start, end)
\* yields F Colors values and then ends, the i-th being
\* start.colors.interpolate(end.colors, i / F), for i = 1..F in order; with
\* F <= 0 its first next() fails with the configuration error and nothing is
\* yielded.  The script's animate_preset prints F frames likewise, the i-th
\* interpolated at i / F, and fails without printing when F <= 0.
C12_FramesInOrder ==
    /\ call.op = "PresetSelector.animation_frames"
       => /\ \A i \in DOMAIN call.yielded :
                 /\ i <= config.frames
                 /\ Value(call.yielded[i]) =
                        Colors_interpolate(PresetNamed(call.start).colors,
                                           PresetNamed(call.end).colors,
                                           Rat(i, config.frames))
          /\ call.state = "suspended" => Len(call.yielded) = call.i
          /\ call.state = "finished"
                 => (config.frames > 0 /\ Len(call.yielded) = config.frames)
          /\ (config.frames > 0 /\ AnimatesPresets) => call.state # "raised"
          /\ (config.frames <= 0 /\ call.state # "created")
                 => /\ call.state = "raised"
                    /\ call.result = FatalError("invalid animation.frames config")
                    /\ call.yielded = <<>>
    /\ call.op = "Rainbowterm.animate_preset"
       => /\ config.frames <= 0
                 => /\ call.result = fail("invalid animation.frames config")
                    /\ call.printed = <<>>
          /\ call.result.kind = "value"
                 => /\ Len(call.printed) = config.frames
                    /\ \A i \in DOMAIN call.printed :
                           call.printed[i] =
                               animate_preset_frame(Scheme(PresetNamed(call.start.v)),
                                                    Scheme(PresetNamed(call.end)),
                                                    Rat(i, config.frames))

\* The generator has ended after yielding two or more frames between two
\* different presets.
C12_Witness ==
    /\ call.op = "PresetSelector.animation_frames"
    /\ call.state = "finished"
    /\ config.frames >= 2
    /\ Len(call.yielded) = config.frames
    /\ call.start # call.end

\* The Colors value restricted to the roles in the set.
Restricted(colors, roles) == [name \in DOMAIN colors \cap roles |-> colors[name]]

\* C13 as stated: the last value animation_frames(start, end) yields is the
\* Colors of the end preset, whatever the roles of the two presets.
C13_LastFrameIsEnd_AsStated ==
    (call.op = "PresetSelector.animation_frames" /\ call.state = "finished")
    => call.yielded[Len(call.yielded)] = PresetNamed(call.end).colors

\* C13, amended: the last value animation_frames(start, end) yields is the
\* Colors of the end preset restricted to the roles the start preset has
\* too; it is the Colors of the end preset when the start preset has every
\* role of the end preset.
C13_LastFrameIsEnd ==
    (call.op = "PresetSelector.animation_frames" /\ call.state = "finished")
    => LET last == call.yielded[Len(call.yielded)]
           start_colors == PresetNamed(call.start).colors
           end_colors == PresetNamed(call.end).colors
       IN  /\ last = Restricted(end_colors, DOMAIN start_colors)
           /\ DOMAIN end_colors \subseteq DOMAIN start_colors => last = end_colors

\* The generator has ended, its last value lacking a role of the end preset
\* and differing from the start preset's colors in the roles it has.
C13_Witness ==
    /\ call.op = "PresetSelector.animation_frames"
    /\ call.state = "finished"
    /\ "Bold Color" \in DOMAIN PresetNamed(call.end).colors
    /\ "Bold Color" \notin DOMAIN PresetNamed(call.start).colors
    /\ call.yielded[Len(call.yielded)] =
           Restricted(PresetNamed(call.end).colors, {FG, BG})
    /\ call.yielded[Len(call.yielded)][FG] # PresetNamed(call.start).colors[FG]

\* The number of items of the list that come before its k-th item in a stable
\* sort by key: those with a key that sorts first, and those with the same
\* key that stand earlier in the list.
ItemsBefore(values, key, reverse, k) ==
    Cardinality({ j \in DOMAIN values :
        \/ IF reverse THEN RLt(key[values[k]], key[values[j]])
                      ELSE RLt(key[values[j]], key[values[k]])
        \/ key[values[j]] = key[values[k]] /\ j < k })

\* C16: normalized_ranks gives the empty mapping for no items and rank 1/2 to
\* a single item; for n >= 2 different items the item at index i of the
\* stable sort by key (descending when reverse is set) gets rank i/(n-1), so
\* the ranks are the n evenly spaced numbers from 0 to 1.
C16_RanksAreEvenlySpaced ==
    call.op = "normalized_ranks" =>
        LET values == call.values
            n == Len(values)
        IN  /\ DOMAIN call.result = Range(values)
            /\ n = 1 => call.result[values[1]] = Half
            /\ n >= 2 =>
                /\ \A k \in 1..n :
                       call.result[values[k]] =
                           Rat(ItemsBefore(values, call.key, call.reverse, k), n - 1)
                /\ { call.result[x] : x \in Range(values) } =
                       { Rat(i, n - 1) : i \in 0..(n - 1) }

\* Three items with two equal keys have been ranked in descending order.
C16_Witness ==
    /\ call.op = "normalized_ranks"
    /\ call.reverse
    /\ call.values = <<"a", "b", "c">>
    /\ call.key["a"] = call.key["c"]
    /\ RLt(call.key["a"], call.key["b"])
    /\ call.result = ("b" :> Zero) @@ ("a" :> Half) @@ ("c" :> One)

\* The items ranked in the lower half: those with a key up to the middle,
\* or those with a key above it when reverse is set.
LowerHalf(values, middle, key, reverse) ==
    { x \in Range(values) : RLe(key[x], middle) # reverse }

\* A quarter of the sum of the gaps between the ranks of n and of m items.
HalfGap(n, m) ==
    RMul(<<1, 4>>, RAdd(IF n > 1 THEN Rat(1, 2 * (n - 1)) ELSE Zero,
                        IF m > 1 THEN Rat(1, 2 * (m - 1)) ELSE Zero))

\* C17: bimodal_normalized_ranks without reverse ranks every item with a key
\* up to the middle in [0, 0.5 - g] and every item with a key above it in
\* [0.5 + g, 1], g being the half gap; no item of one side shares its rank
\* with an item of the other, and the sides never both reach 0.5; a single
\* item gets 0.25 on the lower side and 0.75 on the upper; with reverse the
\* two sides exchange their halves.
C17_SidesKeepToTheirHalves ==
    call.op = "bimodal_normalized_ranks" =>
        LET values == call.values
            lower == LowerHalf(values, call.middle, call.key, call.reverse)
            upper == Range(values) \ lower
            g == HalfGap(Cardinality(lower), Cardinality(upper))
            ranks == call.result
        IN  /\ DOMAIN ranks = Range(values)
            /\ \A x \in lower : RLe(Zero, ranks[x]) /\ RLe(ranks[x], RSub(Half, g))
            /\ \A x \in upper : RLe(RAdd(Half, g), ranks[x]) /\ RLe(ranks[x], One)
            /\ \A x \in lower : \A y \in upper : ranks[x] # ranks[y]
            /\ ~ /\ \E x \in lower : ranks[x] = Half
                 /\ \E y \in upper : ranks[y] = Half
            /\ Len(values) = 1 =>
                   ranks[values[1]] = IF values[1] \in lower THEN <<1, 4>> ELSE <<3, 4>>

\* Two items up to the middle and one above it have been ranked: the half
\* gap is 1/8.
C17_Witness ==
    /\ call.op = "bimodal_normalized_ranks"
    /\ ~call.reverse
    /\ call.middle = Half
    /\ call.values = <<"b", "c", "a">>
    /\ call.key["a"] = <<1, 10>> /\ call.key["b"] = Half /\ call.key["c"] = <<9, 10>>
    /\ call.result = ("a" :> Zero) @@ ("b" :> <<3, 8>>) @@ ("c" :> <<13, 16>>)

Distance(x, y) == IF RLt(x, y) THEN RSub(y, x) ELSE RSub(x, y)

\* C19: for x and y in [0, 1], closeness(x, x) = 1, closeness(x, y) =
\* closeness(y, x), closeness(0, 1) = 0, the result lies in [0, 1], and a
\* pair that is further apart is never closer.
C19_ClosenessFallsWithDistance ==
    call.op = "closeness" =>
        /\ call.x = call.y => call.result = One
        /\ call.result = closeness(call.y, call.x)
        /\ (call.x = Zero /\ call.y = One) => call.result = Zero
        /\ RLe(Zero, call.result) /\ RLe(call.result, One)
        /\ \A u \in UnitNumbers : \A v \in UnitNumbers :
               RLt(Distance(call.x, call.y), Distance(u, v)) =>
                   RLe(closeness(u, v), call.result)

\* The closeness of 0.6 and 0.4 has been computed: 0.96.
C19_Witness ==
    /\ call.op = "closeness"
    /\ call.x = <<3, 5>>
    /\ call.y = <<2, 5>>
    /\ call.result = <<24, 25>>

(***************************************************************************)
(* Properties of the constructors, checked under SpecConstructors.         *)
(***************************************************************************)
\* C21: BitColor(r, g, b) fails when a channel is outside 0..255,
\* LinearColor(r, g, b) fails when a channel is outside 0..1 and
\* Colors(values) fails when the foreground or the background is missing;
\* otherwise the value is constructed from the arguments as given, so every
\* constructed value has its channels in range and both roles.
C21_ConstructorsCheck ==
    /\ call.op = "BitColor" =>
           IF \E x \in {call.r, call.g, call.b} : x < 0 \/ x > 255
           THEN call.result.kind = "AssertionError"
           ELSE call.result = Value([r |-> call.r, g |-> call.g, b |-> call.b])
    /\ call.op = "LinearColor" =>
           IF \E x \in {call.r, call.g, call.b} : RLt(x, Zero) \/ RLt(One, x)
           THEN call.result.kind = "AssertionError"
           ELSE call.result = Value([r |-> call.r, g |-> call.g, b |-> call.b])
    /\ call.op = "Colors" =>
           IF FG \notin DOMAIN call.values \/ BG \notin DOMAIN call.values
           THEN call.result.kind = "AssertionError"
           ELSE call.result = Value(call.values)

\* A LinearColor with one channel just above 1 has been refused.
C21_Witness ==
    /\ call.op = "LinearColor"
    /\ call.r = Half /\ call.g = <<11, 10>> /\ call.b = Zero
    /\ call.result.kind = "AssertionError"

(***************************************************************************)
(* Properties of the accessors of Config, checked under SpecConfig.        *)
(***************************************************************************)
ConfigAccessors == {"Config.get", "Config.bool", "Config.int", "Config.float"}

\* The key of the call is in the parser.
KeyPresent == call.section \in DOMAIN config /\ call.key \in DOMAIN config[call.section]

\* The value of the key of the call, parsed as the accessor parses it.
ParsedOfCall ==
    LET string == config[call.section][call.key]
    IN  CASE call.op = "Config.get" -> Value(string)
          [] call.op = "Config.bool" -> parse_bool(string)
          [] call.op = "Config.int" -> parse_int(string)
          [] call.op = "Config.float" -> parse_float(string)

\* The parsed value satisfies every range predicate of the call.
InDeclaredRange ==
    LET number == IF call.op = "Config.int" THEN <<ParsedOfCall.v, 1>> ELSE ParsedOfCall.v
    IN  \A i \in DOMAIN call.kwargs : Compare(call.kwargs[i][1], number, call.kwargs[i][2])

\* C22: a typed accessor of Config fails with a FatalError that names
\* section.key when the key is absent, when the value cannot be parsed or
\* when the parsed value violates a range predicate of the call; otherwise
\* it returns the parsed value.
C22_AccessorFailsWithFatalError ==
    call.op \in ConfigAccessors =>
        IF KeyPresent /\ ParsedOfCall.kind = "value" /\ InDeclaredRange
        THEN call.result = ParsedOfCall
        ELSE /\ call.result.kind = "FatalError"
             /\ \E i \in DOMAIN call.result.message :
                    SubSeq(call.result.message, i, i + 2) = <<call.section, ".", call.key>>

(***************************************************************************)
(* Properties of normalized_solar_elevation, checked under SpecSolar.      *)
(***************************************************************************)
\* The result of the call is the number r.
SolarResultIs(r) == call.result = Value(r)

\* What the claim says of the result, for the elevations of the call.
SolarElevationRemapped ==
    /\ call.result.kind = "value"
    /\ RLe(Zero, call.result.v) /\ RLe(call.result.v, One)
    /\ RLt(Zero, call.actual) =>
           SolarResultIs(RAdd(Half, RMul(Half, RDiv(call.actual, call.highest))))
    /\ ~RLt(Zero, call.actual) =>
           SolarResultIs(RMul(Half, RDiv(RSub(call.actual, call.lowest),
                                         RSub(Zero, call.lowest))))
    /\ call.actual = call.lowest => SolarResultIs(Zero)
    /\ call.actual = Zero => SolarResultIs(Half)
    /\ call.actual = call.highest => SolarResultIs(One)
    /\ RLe(Half, call.result.v) <=> RLe(Zero, call.actual)

C24_StoreRoundTrips ==
    /\ (call.op = "FileStore.favorites" /\ ~favorites_file.exists) => call.result = {}
    /\ (call.op = "FileStore.smart_history" /\ ~smart_history_file.exists) =>
           call.result = <<>>
    /\ call.op = "FileStore.favorites.setter" =>
           FileStore_favorites(favorites_file) = call.written
    /\ (call.op = "FileStore.smart_history.setter"
            /\ Len(call.written) <= MAX_SMART_HISTORY) =>
           FileStore_smart_history(smart_history_file) = call.written

(***************************************************************************)
(* Properties of repeated selections, checked under SpecRepeat.            *)
(***************************************************************************)
\* The history as persisted.
PersistedHistory == FileStore_smart_history(smart_history_file)

\* C25: when every entry of the history was appended by a successful
\* smart_choice with consider_repetition set and avoid_repeat = N in 1..100,
\* no entry occurs among the N entries before it: any N + 1 consecutive
\* entries are pairwise different.
C25_NoRepeatWithinN ==
    config.avoid_repeat \in 1..MAX_SMART_HISTORY =>
        \A i \in DOMAIN PersistedHistory : \A j \in DOMAIN PersistedHistory :
            (i < j /\ j - i <= config.avoid_repeat) =>
                PersistedHistory[i] # PersistedHistory[j]

\* With avoid_repeat = 1 a third selection has returned the preset of the
\* first: it is no longer among the entries that exclude.
C25_Witness ==
    /\ config.avoid_repeat = 1
    /\ call.op = "Rainbowterm.smart_choice"
    /\ call.result.kind = "value"
    /\ Len(PersistedHistory) = 3
    /\ PersistedHistory[3] = call.result.v
    /\ PersistedHistory[1] = PersistedHistory[3]

\* The selection failed because the exclusion left no candidate.
CannotSatisfy ==
    call.result \in { FatalError("cannot satisfy smart.avoid_repeat config"),
                      fail("cannot satisfy smart.avoid_repeat config") }

\* C26: with more presets than avoid_repeat, smart_choice never fails for
\* want of a candidate, whatever the history; with k presets, k at most
\* avoid_repeat, and a history that starts empty, the first k selections
\* succeed with k different presets and the next one fails for want of a
\* candidate (the signals being available and the ranges proper).
C26_ExclusionLeavesCandidates ==
    (/\ call.op \in SmartChoiceOps
     /\ call.names # <<>>
     /\ call.avoid_repeat \in 0..MAX_SMART_HISTORY)
    => /\ Len(call.names) > call.avoid_repeat => ~CannotSatisfy
       /\ (Len(call.names) <= call.avoid_repeat /\ SignalsAvailable /\ RangesProper) =>
              IF Len(call.history) < Len(call.names)
              THEN /\ call.result.kind = "value"
                   /\ call.result.v \in Range(call.names) \ Range(call.history)
              ELSE CannotSatisfy

\* C27: a smart_choice that fails (no presets, no candidate left, an invalid
\* configuration, a signal that cannot be obtained, or any other exception)
\* leaves the history as it was: the file is the same and reads the same.
C27_FailureKeepsHistory ==
    [][(/\ call = Idle
        /\ call'.op \in SmartChoiceOps
        /\ call'.result.kind # "value")
       => /\ smart_history_file' = smart_history_file
          /\ FileStore_smart_history(smart_history_file') = call'.history]_vars

C27_Witness ==
    /\ call.op = "Rainbowterm.smart_choice"
    /\ call.stage = "scores"
    /\ call.history # <<>>
    /\ FileStore_smart_history(smart_history_file) = call.history

\* C28: within one run of the script, whatever reads and writes of
\* smart_history came before, the value the property returns is the value
\* persisted on disk, the one a fresh run would read, and it never has more
\* than MAX_SMART_HISTORY entries.
C28_CachedValueIsPersisted ==
    call.op = "Rainbowterm.smart_history"
    => /\ call.result = FileStore_smart_history(smart_history_file)
       /\ Len(call.result) <= MAX_SMART_HISTORY

(***************************************************************************)
(* Properties of interactive mode, checked under SpecInteractive.          *)
(***************************************************************************)
\* A key has just been processed: dispatch returned and the loop went on.
KeyProcessed ==
    /\ call.op = "Interactive.dispatch"
    /\ interactive # None
    /\ interactive.kind = "Interactive"

\* C29: after every processed key the index is within 0 .. #presets - 1 and
\* the preset applied is the preset at the cursor; a key that reports no
\* change leaves the index, the order of the list and the applied preset as
\* they were.
C29_CursorIsApplied ==
    [][KeyProcessed' =>
          /\ interactive'.index \in 0..(Len(interactive'.preset_list) - 1)
          /\ Len(interactive'.preset_list) = Len(presets)
          /\ current_file' = Value(Interactive_current(interactive'))
          /\ ~call'.changed =>
                 /\ interactive'.index = interactive.index
                 /\ interactive'.preset_list = interactive.preset_list
                 /\ current_file' = current_file]_vars

C29_Witness ==
    /\ KeyProcessed
    /\ call.char = "s"
    /\ call.changed
    /\ interactive.preset_list # Names(presets)
    /\ interactive.index = 2
    /\ current_file = Value(interactive.preset_list[3])

\* C30: with a favorite, all favorites being presets of the list, J and K
\* return after at most #presets calls of next or prev and leave the cursor
\* on a favorite, also when the only favorite is the current preset; with no
\* favorites they change nothing.
C30_FavoriteKeys ==
    [][(/\ call'.op = "Interactive.dispatch"
        /\ call'.char \in {"J", "K"}
        /\ interactive # None
        /\ interactive.favorites \subseteq Range(interactive.preset_list))
       => IF interactive.favorites = {}
          THEN /\ ~call'.changed
               /\ interactive' = interactive
               /\ current_file' = current_file
               /\ favorites_file' = favorites_file
          ELSE /\ call'.halts
               /\ call'.steps \in 1..Len(interactive.preset_list)
               /\ Interactive_current(interactive') \in interactive.favorites
               /\ interactive'.favorites = interactive.favorites
               /\ interactive.favorites = {Interactive_current(interactive)} =>
                      /\ interactive'.index = interactive.index
                      /\ call'.steps = Len(interactive.preset_list)]_vars

C30_Witness ==
    /\ KeyProcessed
    /\ call.char = "K"
    /\ call.steps = 3
    /\ Len(interactive.preset_list) = 3
    /\ interactive.favorites = {Interactive_current(interactive)}

====
